---- MODULE Spec2Model ----
(***************************************************************************)
(* A model of the arcaflow plugin SDK type system (schema.py) and of the   *)
(* step / schema dispatch layer built on top of it.                        *)
(*                                                                         *)
(* Python values are tagged records, one field name per kind so that two   *)
(* values of different kinds are simply unequal:                           *)
(*   None            [k |-> "none"]                                        *)
(*   int             [k |-> "int",  i |-> n]                               *)
(*   bool            [k |-> "bool", b |-> TRUE]                            *)
(*   str             [k |-> "str",  s |-> "x"]                             *)
(*   list            [k |-> "list", l |-> <<v1, v2>>]                      *)
(*   dict            [k |-> "dict", d |-> << <<key, value>>, ... >>]       *)
(*                   (insertion ordered, keys pairwise different)          *)
(*   dataclass inst. [k |-> "obj",  cls |-> "Name", f |-> [field |-> v]]   *)
(* The outcome of a call is Ok(v) or a raised exception.                   *)
(***************************************************************************)
EXTENDS Integers, Sequences, FiniteSets, TLC

VARIABLES
    objs,      \* the object table of the scope the type under test lives in
    node,      \* the type node under test
    val,       \* the value the next operation is applied to
    form,      \* "raw" or "typed": which representation val is
    last,      \* record of the last operation applied: [op, in, out, os]
    prev,      \* record of the operation before that
    nops,      \* number of operations applied so far
    pc,        \* schema invocation: position inside SchemaType.__call__
    call,      \* schema invocation: the arguments [step_id, data, skip_serialization]
    input_param, \* schema invocation: the decoded input
    result,    \* schema invocation: the handler's result once it returned
    outcome,   \* schema invocation: the value returned or exception raised
    events,    \* schema invocation: the sequence of things that happened
    threads,   \* concurrent callers: per thread [pc, op, data, tree, original_stdout, out]
    sys_stdout, \* concurrent callers: what the process-wide sys.stdout is bound to,
               \* 0 for the process's own stream, t for the buffer of thread t
    run,       \* command line: [args, stage, step_id, exit, exc] of plugin.run
    build,     \* build time: the state of the builder
    stack      \* one operation step by step: the frames [os, T, data, op, next] of the
               \* calls that have not returned, outermost first

typeVars == <<objs, node, val, form, last, prev, nops>>
callVars == <<pc, call, input_param, result, outcome, events>>
\* the variables of the specifications further down, idle in the first two
auxVars == <<threads, sys_stdout, run, build, stack>>
vars == <<objs, node, val, form, last, prev, nops,
          pc, call, input_param, result, outcome, events, threads, sys_stdout, run, build,
          stack>>

-----------------------------------------------------------------------------
(* Bounds *)

\* Largest number of requiredness / conflict rule entries in one drawn object.
MaxRules == 2
\* Operations applied in a row to one drawn value.
MaxOps == 3
\* Deepest chain of self-referential objects drawn.
MaxDepth == 3
\* the number of concurrent callers
MaxThreads == 2
\* the most steps handed to build_schema
MaxSteps == 3
\* the call depth of _resolve_class at which the interpreter's stack is used up
MaxRecursion == 3

-----------------------------------------------------------------------------
(* Python values *)

None == [k |-> "none"]
PyInt(n) == [k |-> "int", i |-> n]
PyBool(b) == [k |-> "bool", b |-> b]
PyStr(s) == [k |-> "str", s |-> s]
PyList(l) == [k |-> "list", l |-> l]
PyDict(d) == [k |-> "dict", d |-> d]
PyObj(c, f) == [k |-> "obj", cls |-> c, f |-> f]
\* a bound method of a built-in, as returned by getattr({}, "items")
Method == [k |-> "method"]
\* dataclasses.MISSING: the field has no default
MISSING == [k |-> "missing"]

IsNone(v) == v.k = "none"
\* isinstance(v, int): bool is a subclass of int
IsInstanceInt(v) == v.k \in {"int", "bool"}
IsInstanceStr(v) == v.k = "str"
IsInstanceList(v) == v.k = "list"
IsInstanceDict(v) == v.k = "dict"

\* the integer a Python int or bool stands for
IntOf(v) == IF v.k = "bool" THEN (IF v.b THEN 1 ELSE 0) ELSE v.i

\* Python == on the hashable values used as dict keys: True == 1, "1" != 1
KeyEq(a, b) ==
    IF IsInstanceInt(a) /\ IsInstanceInt(b) THEN IntOf(a) = IntOf(b) ELSE a = b

\* key in data
DictHas(data, key) == \E n \in 1..Len(data.d) : KeyEq(data.d[n][1], key)
\* data[key], for a key that is in data
DictGet(data, key) ==
    data.d[CHOOSE n \in 1..Len(data.d) : KeyEq(data.d[n][1], key)][2]
\* data[key] = value on a dict: replaces in place or appends
DictSet(data, key, value) ==
    IF DictHas(data, key)
    THEN PyDict([n \in 1..Len(data.d) |->
                 IF KeyEq(data.d[n][1], key) THEN <<data.d[n][1], value>> ELSE data.d[n]])
    ELSE PyDict(Append(data.d, <<key, value>>))
\* del data[key]
DictDel(data, key) ==
    PyDict(SelectSeq(data.d, LAMBDA e : ~KeyEq(e[1], key)))

\* Python == on values: numbers compare by value, dicts regardless of order,
\* dataclass instances by class and fields
RECURSIVE PyEq(_, _)
PyEq(a, b) ==
    CASE IsInstanceInt(a) /\ IsInstanceInt(b) -> IntOf(a) = IntOf(b)
      [] a.k = "list" /\ b.k = "list" ->
            /\ Len(a.l) = Len(b.l)
            /\ \A n \in 1..Len(a.l) : PyEq(a.l[n], b.l[n])
      [] a.k = "dict" /\ b.k = "dict" ->
            /\ Len(a.d) = Len(b.d)
            /\ \A n \in 1..Len(a.d) : \E m \in 1..Len(b.d) :
                  KeyEq(a.d[n][1], b.d[m][1]) /\ PyEq(a.d[n][2], b.d[m][2])
      [] a.k = "obj" /\ b.k = "obj" ->
            /\ a.cls = b.cls
            /\ DOMAIN a.f = DOMAIN b.f
            /\ \A f \in DOMAIN a.f : PyEq(a.f[f], b.f[f])
      [] OTHER -> a = b

\* Names that are attributes of every Python dict, among the property names used.
DictAttrs == {"items", "keys", "values", "get", "pop", "copy", "update", "clear"}

\* hasattr(data, name) for a raw dict or a dataclass instance
HasAttr(data, name) ==
    CASE data.k = "dict" -> name \in DictAttrs
      [] data.k = "obj" -> name \in DOMAIN data.f
      [] OTHER -> FALSE
\* getattr(data, name) where hasattr(data, name)
GetAttr(data, name) ==
    IF data.k = "obj" THEN data.f[name] ELSE Method

-----------------------------------------------------------------------------
(* Outcomes *)

Ok(v) == [ok |-> TRUE, v |-> v]
\* raise ConstraintException(path, msg)
ConstraintException(path, msg) ==
    [ok |-> FALSE, exc |-> "ConstraintException", path |-> path, msg |-> msg]
\* any other exception type
Raise(exc) == [ok |-> FALSE, exc |-> exc, path |-> <<>>, msg |-> ""]

IsConstraintException(r) == ~r.ok /\ r.exc = "ConstraintException"

\* what a call of unserialize leaves behind: its outcome r and the state of
\* the caller's raw object after the call (unserialize works on it in place)
M(r, data) == [r |-> r, data |-> data]

-----------------------------------------------------------------------------
(* Type nodes *)

\* min and max are sets: {} is None, {n} is the bound n
IntType(min, max) == [t |-> "int", min |-> min, max |-> max]
ListType(items, min, max) == [t |-> "list", items |-> items, min |-> min, max |-> max]
MapType(keys, values, min, max) ==
    [t |-> "map", keys |-> keys, values |-> values, min |-> min, max |-> max]
PropertyType(id, type, required, required_if, required_if_not, conflicts, field_override) ==
    [id |-> id, type |-> type, required |-> required, required_if |-> required_if,
     required_if_not |-> required_if_not, conflicts |-> conflicts,
     field_override |-> field_override]
\* a dataclass: its name and its fields in order, each with its default
\* (MISSING when the field has none)
Dataclass(name, fields) == [name |-> name, fields |-> fields]
Field(name, default) == [name |-> name, default |-> default]
\* properties: the sequence of the object's properties in declaration order
ObjectType(cls, properties) == [t |-> "object", cls |-> cls, properties |-> properties]
\* types: sequence of <<discriminator, ObjectType>> in dict order
OneOfStringType(types, discriminator_field_name) ==
    [t |-> "oneof", types |-> types, discriminator_field_name |-> discriminator_field_name]
RefType(id) == [t |-> "ref", id |-> id]
ScopeType(root, objects) == [t |-> "scope", root |-> root, objects |-> objects]

\* property_id in self.properties
HasProperty(T, id) == \E n \in 1..Len(T.properties) : T.properties[n].id = id
\* the attribute name a property is stored under
FieldId(p) == IF p.field_override # "" THEN p.field_override ELSE p.id

\* isinstance(data, cls) for a dataclass cls
IsInstance(data, cls) == data.k = "obj" /\ data.cls = cls.name

\* self._cls(**kwargs): the dataclass constructor fills a field that is not
\* passed with its default and raises TypeError when it has none
Construct(cls, kwargs) ==
    IF \E n \in 1..Len(cls.fields) :
          cls.fields[n].name \notin DOMAIN kwargs /\ cls.fields[n].default = MISSING
    THEN Raise("TypeError")
    ELSE Ok(PyObj(cls.name,
                  [f \in {cls.fields[n].name : n \in 1..Len(cls.fields)} |->
                      IF f \in DOMAIN kwargs THEN kwargs[f]
                      ELSE LET n == CHOOSE n \in 1..Len(cls.fields) : cls.fields[n].name = f
                           IN cls.fields[n].default]))

-----------------------------------------------------------------------------
(* IntType *)

\* Strings int() parses, with their values; int() raises ValueError on others.
IntParse == ("0" :> 0) @@ ("1" :> 1) @@ ("2" :> 2) @@ ("3" :> 3) @@ ("-1" :> (0 - 1))

\* the same with exclusive bounds
IntType_validate_Exclusive(T, data, path) ==
    IF ~IsInstanceInt(data)
    THEN ConstraintException(path, "Must be an integer, {} given")
    ELSE IF \E m \in T.min : IntOf(data) <= m
    THEN ConstraintException(path, "Must be at least {}")
    ELSE IF \E m \in T.max : IntOf(data) >= m
    THEN ConstraintException(path, "Must be at most {}")
    ELSE Ok(None)

IntType_validate(T, data, path) ==
    IF ~IsInstanceInt(data)
    THEN ConstraintException(path, "Must be an integer, {} given")
    ELSE IF \E m \in T.min : IntOf(data) < m
    THEN ConstraintException(path, "Must be at least {}")
    ELSE IF \E m \in T.max : IntOf(data) > m
    THEN ConstraintException(path, "Must be at most {}")
    ELSE Ok(None)

IntType_unserialize(T, data, path) ==
    IF IsInstanceStr(data) /\ data.s \notin DOMAIN IntParse
    THEN M(ConstraintException(path, "Must be an integer"), data)
    ELSE LET d == IF IsInstanceStr(data) THEN PyInt(IntParse[data.s]) ELSE data
             r == IntType_validate(T, d, path)
         IN  M(IF r.ok THEN Ok(d) ELSE r, data)

IntType_serialize(T, data, path) ==
    LET r == IntType_validate(T, data, path)
    IN  IF r.ok THEN Ok(data) ELSE r

-----------------------------------------------------------------------------
(* BoolType *)

BoolType == [t |-> "bool"]

\* str.lower() on the strings that are drawn as raw booleans; a string
\* without upper-case letters is its own lower-case form
Lower(s) ==
    CASE s \in {"YES", "Yes", "yEs"} -> "yes"
      [] s \in {"ON", "On"} -> "on"
      [] s \in {"TRUE", "True"} -> "true"
      [] s \in {"ENABLE", "Enable"} -> "enable"
      [] s \in {"ENABLED", "Enabled"} -> "enabled"
      [] s \in {"NO", "No"} -> "no"
      [] s \in {"OFF", "Off"} -> "off"
      [] s \in {"FALSE", "False"} -> "false"
      [] s \in {"DISABLE", "Disable"} -> "disable"
      [] s \in {"DISABLED", "Disabled"} -> "disabled"
      [] s = "Maybe" -> "maybe"
      [] OTHER -> s

\* the same without lower-casing the string
BoolType_unserialize_CaseSensitive(T, data, path) ==
    IF data.k = "bool" THEN M(Ok(data), data)
    ELSE IF data.k = "int"
    THEN IF data.i = 0 THEN M(Ok(PyBool(FALSE)), data)
         ELSE IF data.i = 1 THEN M(Ok(PyBool(TRUE)), data)
         ELSE M(ConstraintException(path, "Boolean value expected, integer found ({})"), data)
    ELSE IF IsInstanceStr(data)
    THEN IF data.s \in {"yes", "on", "true", "enable", "enabled", "1"}
         THEN M(Ok(PyBool(TRUE)), data)
         ELSE IF data.s \in {"no", "off", "false", "disable", "disabled", "0"}
         THEN M(Ok(PyBool(FALSE)), data)
         ELSE M(ConstraintException(path, "Boolean value expected, string found ({})"), data)
    ELSE M(ConstraintException(path, "Boolean value expected, {} found"), data)

BoolType_unserialize(T, data, path) ==
    IF data.k = "bool" THEN M(Ok(data), data)
    ELSE IF data.k = "int"
    THEN IF data.i = 0 THEN M(Ok(PyBool(FALSE)), data)
         ELSE IF data.i = 1 THEN M(Ok(PyBool(TRUE)), data)
         ELSE M(ConstraintException(path, "Boolean value expected, integer found ({})"), data)
    ELSE IF IsInstanceStr(data)
    THEN LET lower_str == Lower(data.s)
         IN  IF lower_str \in {"yes", "on", "true", "enable", "enabled", "1"}
             THEN M(Ok(PyBool(TRUE)), data)
             ELSE IF lower_str \in {"no", "off", "false", "disable", "disabled", "0"}
             THEN M(Ok(PyBool(FALSE)), data)
             ELSE M(ConstraintException(path, "Boolean value expected, string found ({})"),
                    data)
    ELSE M(ConstraintException(path, "Boolean value expected, {} found"), data)

BoolType_validate(T, data, path) ==
    IF data.k # "bool"
    THEN ConstraintException(path, "Boolean value expected, {} found")
    ELSE Ok(None)

BoolType_serialize(T, data, path) ==
    IF data.k = "bool" THEN Ok(data)
    ELSE ConstraintException(path, "Boolean value expected, {} found")

-----------------------------------------------------------------------------
(* StringType *)

\* min and max are sets as for IntType; the nodes drawn carry no pattern
StringType(min, max) == [t |-> "string", min |-> min, max |-> max]

\* len(string) of the strings that reach a StringType node
StrLen(s) ==
    CASE s = "" -> 0
      [] s \in {"x", "y", "z", "t", "u", "1", "2"} -> 1
      [] OTHER -> 4

\* str(v) of a Python int, bool or str
PyStrOf(v) ==
    CASE v.k = "str" -> v.s
      [] v.k = "int" -> ToString(v.i)
      [] v.k = "bool" -> (IF v.b THEN "True" ELSE "False")
      [] OTHER -> "?"

StringType_validate(T, data, path) ==
    IF ~IsInstanceStr(data)
    THEN ConstraintException(path, "Must be a string, {} given")
    ELSE IF \E m \in T.min : StrLen(data.s) < m
    THEN ConstraintException(path, "String must be at least {} characters, {} given")
    ELSE IF \E m \in T.max : StrLen(data.s) > m
    THEN ConstraintException(path, "String must be at most {} characters, {} given")
    ELSE Ok(None)

StringType_unserialize(T, data, path) ==
    LET d == IF IsInstanceInt(data) THEN PyStr(PyStrOf(data)) ELSE data
        r == StringType_validate(T, d, path)
    IN  M(IF r.ok THEN Ok(d) ELSE r, data)

StringType_serialize(T, data, path) ==
    LET r == StringType_validate(T, data, path)
    IN  IF r.ok THEN Ok(data) ELSE r

-----------------------------------------------------------------------------
(* Dispatch on the node kind: the method call node.unserialize(data, path)  *)
(* and its two siblings.  objs is the object table of the scope that the    *)
(* RefType nodes below the node were created with.                          *)

RECURSIVE Unserialize(_, _, _, _), Validate(_, _, _, _), Serialize(_, _, _, _)

-----------------------------------------------------------------------------
(* ListType *)

ListType_validate_(T, data, path) ==
    IF ~IsInstanceList(data)
    THEN ConstraintException(path, "Must be a list, {} given")
    ELSE IF \E m \in T.min : Len(data.l) < m
    THEN ConstraintException(path, "Must have at least {} items, {} given")
    ELSE IF \E m \in T.max : Len(data.l) > m
    THEN ConstraintException(path, "Must have at most {} items, {} given")
    ELSE Ok(None)

\* the loop of ListType.unserialize from element i on; l is the caller's list,
\* whose elements the loop replaces one by one
RECURSIVE ListType_unserialize_loop(_, _, _, _, _)
ListType_unserialize_loop(os, T, l, path, i) ==
    IF i > Len(l)
    THEN LET r == ListType_validate_(T, PyList(l), path)
         IN  M(IF r.ok THEN Ok(PyList(l)) ELSE r, PyList(l))
    ELSE LET new_path == Append(path, PyStr(ToString(i - 1)))
             u == Unserialize(os, T.items, l[i], new_path)
         IN  IF ~u.r.ok
             THEN M(u.r, PyList([l EXCEPT ![i] = u.data]))
             ELSE ListType_unserialize_loop(os, T, [l EXCEPT ![i] = u.r.v], path, i + 1)

ListType_unserialize(os, T, data, path) ==
    IF ~IsInstanceList(data)
    THEN M(ConstraintException(path, "Must be a list, {} given"), data)
    ELSE ListType_unserialize_loop(os, T, data.l, path, 1)

RECURSIVE ListType_validate_loop(_, _, _, _, _)
ListType_validate_loop(os, T, data, path, i) ==
    IF i > Len(data.l) THEN Ok(None)
    ELSE LET r == Validate(os, T.items, data.l[i], Append(path, PyStr(ToString(i - 1))))
         IN  IF ~r.ok THEN r ELSE ListType_validate_loop(os, T, data, path, i + 1)

ListType_validate(os, T, data, path) ==
    LET r == ListType_validate_(T, data, path)
    IN  IF ~r.ok THEN r ELSE ListType_validate_loop(os, T, data, path, 1)

RECURSIVE ListType_serialize_loop(_, _, _, _, _, _)
ListType_serialize_loop(os, T, data, path, i, res) ==
    IF i > Len(data.l) THEN Ok(PyList(res))
    ELSE LET r == Serialize(os, T.items, data.l[i], Append(path, PyStr(ToString(i - 1))))
         IN  IF ~r.ok THEN r
             ELSE ListType_serialize_loop(os, T, data, path, i + 1, Append(res, r.v))

ListType_serialize(os, T, data, path) ==
    LET r == ListType_validate_(T, data, path)
    IN  IF ~r.ok THEN r ELSE ListType_serialize_loop(os, T, data, path, 1, <<>>)

-----------------------------------------------------------------------------
(* MapType *)

\* MapType._validate; the two count checks raise ConstraintException() with
\* no arguments, that is with the empty default path and message
MapType_validate_(T, data, path) ==
    IF ~IsInstanceDict(data)
    THEN ConstraintException(path, "Must be a dict, {} given")
    ELSE IF \E m \in T.min : Len(data.d) < m
    THEN ConstraintException(<<>>, "")
    ELSE IF \E m \in T.max : Len(data.d) > m
    THEN ConstraintException(<<>>, "")
    ELSE Ok(data)

\* the same loop without the test for a key that is in the result already
RECURSIVE MapType_unserialize_loop_Overwriting(_, _, _, _, _, _)
MapType_unserialize_loop_Overwriting(os, T, data, path, n, res) ==
    IF n > Len(data.d) THEN M(Ok(res), data)
    ELSE LET key == data.d[n][1]
             value == data.d[n][2]
             new_path == Append(path, key)
             uk == Unserialize(os, T.keys, key, Append(new_path, PyStr("key")))
         IN  IF ~uk.r.ok THEN M(uk.r, data)
             ELSE LET uv == Unserialize(os, T.values, value, Append(new_path, PyStr("value")))
                      data2 == PyDict([data.d EXCEPT ![n] = <<key, uv.data>>])
                  IN  IF ~uv.r.ok THEN M(uv.r, data2)
                      ELSE MapType_unserialize_loop_Overwriting(os, T, data2, path, n + 1,
                                                    DictSet(res, uk.r.v, uv.r.v))

\* the loop of MapType.unserialize from entry n on; res is the result dict
RECURSIVE MapType_unserialize_loop(_, _, _, _, _, _)
MapType_unserialize_loop(os, T, data, path, n, res) ==
    IF n > Len(data.d) THEN M(Ok(res), data)
    ELSE LET key == data.d[n][1]
             value == data.d[n][2]
             new_path == Append(path, key)
             key_path == Append(new_path, PyStr("key"))
             value_path == Append(new_path, PyStr("value"))
             uk == Unserialize(os, T.keys, key, key_path)
         IN  IF ~uk.r.ok THEN M(uk.r, data)
             ELSE IF DictHas(res, uk.r.v)
             THEN M(ConstraintException(key_path, "Key already exists in result dict"), data)
             ELSE LET uv == Unserialize(os, T.values, value, value_path)
                      data2 == PyDict([data.d EXCEPT ![n] = <<key, uv.data>>])
                  IN  IF ~uv.r.ok THEN M(uv.r, data2)
                      ELSE MapType_unserialize_loop(os, T, data2, path, n + 1,
                                                    DictSet(res, uk.r.v, uv.r.v))

MapType_unserialize(os, T, data, path) ==
    LET entries == MapType_validate_(T, data, path)
    IN  IF ~entries.ok THEN M(entries, data)
        ELSE MapType_unserialize_loop(os, T, data, path, 1, PyDict(<<>>))

\* the value is validated under new_path, the entry's path without "value"
RECURSIVE MapType_validate_loop(_, _, _, _, _)
MapType_validate_loop(os, T, data, path, n) ==
    IF n > Len(data.d) THEN Ok(None)
    ELSE LET key == data.d[n][1]
             value == data.d[n][2]
             new_path == Append(path, key)
             key_path == Append(new_path, PyStr("key"))
             rk == Validate(os, T.keys, key, key_path)
         IN  IF ~rk.ok THEN rk
             ELSE LET rv == Validate(os, T.values, value, new_path)
                  IN  IF ~rv.ok THEN rv
                      ELSE MapType_validate_loop(os, T, data, path, n + 1)

MapType_validate(os, T, data, path) ==
    LET entries == MapType_validate_(T, data, path)
    IN  IF ~entries.ok THEN entries ELSE MapType_validate_loop(os, T, data, path, 1)

RECURSIVE MapType_serialize_loop(_, _, _, _, _, _)
MapType_serialize_loop(os, T, data, path, n, res) ==
    IF n > Len(data.d)
    THEN MapType_validate_(T, res, path)
    ELSE LET key == data.d[n][1]
             key_path == path \o <<PyStr(PyStrOf(key)), PyStr("key")>>
             value_path == path \o <<PyStr(PyStrOf(key)), PyStr("value")>>
             sk == Serialize(os, T.keys, key, key_path)
         IN  IF ~sk.ok THEN sk
             ELSE LET sv == Serialize(os, T.values, data.d[n][2], value_path)
                  IN  IF ~sv.ok THEN sv
                      ELSE MapType_serialize_loop(os, T, data, path, n + 1,
                                                  DictSet(res, sk.v, sv.v))

MapType_serialize(os, T, data, path) ==
    LET entries == MapType_validate_(T, data, path)
    IN  IF ~entries.ok THEN entries
        ELSE MapType_serialize_loop(os, T, data, path, 1, PyDict(<<>>))

-----------------------------------------------------------------------------
(* ObjectType *)

\* the elements of a Python list of names
Names(l) == {l[n] : n \in 1..Len(l)}

\* ObjectType._validate_not_set: data is the raw dict (from unserialize) or
\* the dataclass instance (from _validate_property)
ObjectType_validate_not_set(data, object_property, path) ==
    IF object_property.required
    THEN ConstraintException(path, "This field is required")
    ELSE IF \E required_if \in Names(object_property.required_if) :
               \/ (IsInstanceDict(data) /\ DictHas(data, PyStr(required_if)))
               \/ (HasAttr(data, required_if) /\ IsNone(GetAttr(data, required_if)))
    THEN ConstraintException(path, "This field is required because '{}' is set")
    ELSE IF /\ Len(object_property.required_if_not) > 0
            /\ ~\E required_if_not \in Names(object_property.required_if_not) :
                  \/ (IsInstanceDict(data) /\ DictHas(data, PyStr(required_if_not)))
                  \/ (HasAttr(data, required_if_not) /\ ~IsNone(GetAttr(data, required_if_not)))
    THEN IF Len(object_property.required_if_not) = 1
         THEN ConstraintException(path, "This field is required because '{}' is not set")
         ELSE ConstraintException(path, "This field is required because none of '{}' are set")
    ELSE Ok(None)

\* ObjectType._validate_property: returns the field's value
ObjectType_validate_property(data, path, field_id, property_field) ==
    LET new_path == Append(path, PyStr(property_field.id))
    IN  IF ~HasAttr(data, field_id) THEN Raise("AttributeError")
        ELSE LET value == GetAttr(data, field_id)
                 r == IF IsNone(value)
                      THEN ObjectType_validate_not_set(data, property_field, new_path)
                      ELSE Ok(None)
             IN  IF ~r.ok THEN r ELSE Ok(value)

\* the property loop of ObjectType.unserialize from property n on
RECURSIVE ObjectType_unserialize_loop(_, _, _, _, _, _)
ObjectType_unserialize_loop(os, T, data, path, n, kwargs) ==
    IF n > Len(T.properties) THEN M(Construct(T.cls, kwargs), data)
    ELSE LET object_property == T.properties[n]
             property_id == object_property.id
             property_value == IF DictHas(data, PyStr(property_id))
                               THEN DictGet(data, PyStr(property_id)) ELSE None
             new_path == Append(path, PyStr(property_id))
         IN  IF ~IsNone(property_value)
             THEN LET u == Unserialize(os, object_property.type, property_value, new_path)
                      data2 == DictSet(data, PyStr(property_id), u.data)
                  IN  IF ~u.r.ok THEN M(u.r, data2)
                      ELSE IF \E conflict \in Names(object_property.conflicts) :
                                 DictHas(data, PyStr(conflict))
                      THEN M(ConstraintException(new_path,
                               "Field conflicts '{}', set one of the two, not both"), data2)
                      ELSE ObjectType_unserialize_loop(os, T, data2, path, n + 1,
                               (FieldId(object_property) :> u.r.v) @@ kwargs)
             ELSE LET r == ObjectType_validate_not_set(data, object_property, new_path)
                  IN  IF ~r.ok THEN M(r, data)
                      ELSE ObjectType_unserialize_loop(os, T, data, path, n + 1, kwargs)

\* the same without the check of the keys
ObjectType_unserialize_AnyKey(os, T, data, path) ==
    IF ~IsInstanceDict(data)
    THEN M(ConstraintException(path, "Must be a dict, got {}"), data)
    ELSE ObjectType_unserialize_loop(os, T, data, path, 1, <<>>)

ObjectType_unserialize(os, T, data, path) ==
    IF ~IsInstanceDict(data)
    THEN M(ConstraintException(path, "Must be a dict, got {}"), data)
    ELSE IF \E n \in 1..Len(data.d) :
               ~(IsInstanceStr(data.d[n][1]) /\ HasProperty(T, data.d[n][1].s))
    THEN M(ConstraintException(path, "Invalid parameter '{}', expected one of: {}"), data)
    ELSE ObjectType_unserialize_loop(os, T, data, path, 1, <<>>)

\* first loop of ObjectType.validate from property n on; values is the set of
\* property ids whose value was found set
RECURSIVE ObjectType_validate_pass1(_, _, _, _, _, _)
ObjectType_validate_pass1(os, T, data, path, n, values) ==
    IF n > Len(T.properties) THEN Ok(values)
    ELSE LET property_field == T.properties[n]
             vp == ObjectType_validate_property(data, path, FieldId(property_field),
                                                property_field)
         IN  IF ~vp.ok THEN vp
             ELSE IF IsNone(vp.v)
             THEN ObjectType_validate_pass1(os, T, data, path, n + 1, values)
             ELSE LET r == Validate(os, property_field.type, vp.v,
                                    Append(path, PyStr(property_field.id)))
                  IN  IF ~r.ok THEN r
                      ELSE ObjectType_validate_pass1(os, T, data, path, n + 1,
                                                     values \cup {property_field.id})

\* second loop of ObjectType.validate from property n on
RECURSIVE ObjectType_validate_pass2(_, _, _, _)
ObjectType_validate_pass2(T, path, n, values) ==
    IF n > Len(T.properties) THEN Ok(None)
    ELSE LET property_field == T.properties[n]
             new_path == Append(path, PyStr(property_field.id))
         IN  IF property_field.id \in values
             THEN IF \E conflicts \in Names(property_field.conflicts) : conflicts \in values
                  THEN ConstraintException(new_path, "Field conflicts with {}")
                  ELSE ObjectType_validate_pass2(T, path, n + 1, values)
             ELSE IF property_field.required
             THEN ConstraintException(new_path, "Field is required but not set")
             ELSE IF /\ Len(property_field.required_if_not) > 0
                     /\ ~\E required_if_not \in Names(property_field.required_if_not) :
                           required_if_not \in values
             THEN ConstraintException(new_path,
                                      "Field is required because none of '{}' are set")
             ELSE IF \E required_if \in Names(property_field.required_if) :
                        required_if \in values
             THEN ConstraintException(new_path,
                                      "Field is required because none of '{}' are set")
             ELSE ObjectType_validate_pass2(T, path, n + 1, values)

ObjectType_validate(os, T, data, path) ==
    IF ~IsInstance(data, T.cls)
    THEN ConstraintException(path, "Must be an instance of {}, {} given")
    ELSE LET values == ObjectType_validate_pass1(os, T, data, path, 1, {})
         IN  IF ~values.ok THEN values
             ELSE ObjectType_validate_pass2(T, path, 1, values.v)

\* the property loop of ObjectType.serialize from property n on
RECURSIVE ObjectType_serialize_loop(_, _, _, _, _, _)
ObjectType_serialize_loop(os, T, data, path, n, res) ==
    IF n > Len(T.properties) THEN Ok(res)
    ELSE LET property_field == T.properties[n]
             vp == ObjectType_validate_property(data, path, FieldId(property_field),
                                                property_field)
         IN  IF ~vp.ok THEN vp
             ELSE IF IsNone(vp.v)
             THEN ObjectType_serialize_loop(os, T, data, path, n + 1, res)
             ELSE LET r == Serialize(os, property_field.type, vp.v,
                                     Append(path, PyStr(property_field.id)))
                  IN  IF ~r.ok THEN r
                      ELSE ObjectType_serialize_loop(os, T, data, path, n + 1,
                               DictSet(res, PyStr(property_field.id), r.v))

ObjectType_serialize(os, T, data, path) ==
    IF ~IsInstance(data, T.cls)
    THEN ConstraintException(path, "Must be an instance of {}, {} given")
    ELSE ObjectType_serialize_loop(os, T, data, path, 1, PyDict(<<>>))

-----------------------------------------------------------------------------
(* OneOfStringType *)

\* discriminator in self.types
HasType(T, discriminator) == \E n \in 1..Len(T.types) : T.types[n][1] = discriminator
\* self.types[discriminator]
GetType(T, discriminator) ==
    T.types[CHOOSE n \in 1..Len(T.types) : T.types[n][1] = discriminator][2]

\* Variant: the discriminator key is left in the mapping handed to the member.
OneOfStringType_unserialize_Unstripped(os, T, data, path) ==
    LET new_path == Append(path, PyStr(T.discriminator_field_name))
        field == PyStr(T.discriminator_field_name)
    IN  IF ~IsInstanceDict(data)
        THEN M(ConstraintException(path, "Must be a dict, got {}"), data)
        ELSE IF ~DictHas(data, field)
        THEN M(ConstraintException(new_path, "Required discriminator field not found"), data)
        ELSE LET unserialized_discriminator_field == DictGet(data, field)
             IN  IF ~IsInstanceStr(unserialized_discriminator_field)
                 THEN M(ConstraintException(new_path, "String required, {} found"), data)
                 ELSE IF ~HasType(T, unserialized_discriminator_field.s)
                 THEN M(ConstraintException(new_path,
                          "Invalid value for field: '{}' expected one of: '{}'"), data)
                 ELSE Unserialize(os, GetType(T, unserialized_discriminator_field.s),
                                  data, path)

\* Variant: an integer discriminator is turned into its string form.
OneOfStringType_unserialize_Coercing(os, T, data, path) ==
    LET new_path == Append(path, PyStr(T.discriminator_field_name))
        field == PyStr(T.discriminator_field_name)
    IN  IF ~IsInstanceDict(data)
        THEN M(ConstraintException(path, "Must be a dict, got {}"), data)
        ELSE IF ~DictHas(data, field)
        THEN M(ConstraintException(new_path, "Required discriminator field not found"), data)
        ELSE LET raw_field == DictGet(data, field)
                 unserialized_discriminator_field ==
                     IF IsInstanceInt(raw_field) THEN PyStr(PyStrOf(raw_field)) ELSE raw_field
             IN  IF ~IsInstanceStr(unserialized_discriminator_field)
                 THEN M(ConstraintException(new_path, "String required, {} found"), data)
                 ELSE IF ~HasType(T, unserialized_discriminator_field.s)
                 THEN M(ConstraintException(new_path,
                          "Invalid value for field: '{}' expected one of: '{}'"), data)
                 ELSE LET sub_type == GetType(T, unserialized_discriminator_field.s)
                          data2 == IF ~HasProperty(sub_type, T.discriminator_field_name)
                                   THEN DictDel(data, field) ELSE data
                      IN  Unserialize(os, sub_type, data2, path)

OneOfStringType_unserialize(os, T, data, path) ==
    LET new_path == Append(path, PyStr(T.discriminator_field_name))
        field == PyStr(T.discriminator_field_name)
    IN  IF ~IsInstanceDict(data)
        THEN M(ConstraintException(path, "Must be a dict, got {}"), data)
        ELSE IF ~DictHas(data, field)
        THEN M(ConstraintException(new_path, "Required discriminator field not found"), data)
        ELSE LET unserialized_discriminator_field == DictGet(data, field)
             IN  IF ~IsInstanceStr(unserialized_discriminator_field)
                 THEN M(ConstraintException(new_path, "String required, {} found"), data)
                 ELSE IF ~HasType(T, unserialized_discriminator_field.s)
                 THEN M(ConstraintException(new_path,
                          "Invalid value for field: '{}' expected one of: '{}'"), data)
                 ELSE LET sub_type == GetType(T, unserialized_discriminator_field.s)
                          data2 == IF ~HasProperty(sub_type, T.discriminator_field_name)
                                   THEN DictDel(data, field) ELSE data
                      IN  Unserialize(os, sub_type, data2, path)

\* Variant: the value's discriminator field is not compared with the key.
OneOfStringType_discriminator_check_Skipped(T, item_schema, discriminator, data, path) ==
    Ok(None)

\* the check both validate and serialize make after the member accepted data
OneOfStringType_discriminator_check(T, item_schema, discriminator, data, path) ==
    IF ~HasProperty(item_schema, T.discriminator_field_name) THEN Ok(None)
    ELSE IF ~HasAttr(data, T.discriminator_field_name) THEN Raise("AttributeError")
    ELSE IF GetAttr(data, T.discriminator_field_name) # PyStr(discriminator)
    THEN ConstraintException(Append(path, PyStr(T.discriminator_field_name)),
                             "Invalid value for '{}' on '{}', should be: '{}'")
    ELSE Ok(None)

\* the loop of OneOfStringType.validate from member n on; the member
\* validates under the default, empty path
RECURSIVE OneOfStringType_validate_loop(_, _, _, _, _)
OneOfStringType_validate_loop(os, T, data, path, n) ==
    IF n > Len(T.types)
    THEN ConstraintException(path, "Invalid type: '{}', expected one of '{}'")
    ELSE LET discriminator == T.types[n][1]
             item_schema == T.types[n][2]
         IN  IF IsInstance(data, item_schema.cls)
             THEN LET r == Validate(os, item_schema, data, <<>>)
                  IN  IF ~r.ok THEN r
                      ELSE OneOfStringType_discriminator_check(T, item_schema,
                                                               discriminator, data, path)
             ELSE OneOfStringType_validate_loop(os, T, data, path, n + 1)

OneOfStringType_validate(os, T, data, path) ==
    OneOfStringType_validate_loop(os, T, data, path, 1)

RECURSIVE OneOfStringType_serialize_loop(_, _, _, _, _)
OneOfStringType_serialize_loop(os, T, data, path, n) ==
    IF n > Len(T.types)
    THEN ConstraintException(path, "Invalid type: '{}', expected one of '{}'")
    ELSE LET discriminator == T.types[n][1]
             item_schema == T.types[n][2]
         IN  IF IsInstance(data, item_schema.cls)
             THEN LET serialized_data == Serialize(os, item_schema, data, <<>>)
                      c == OneOfStringType_discriminator_check(T, item_schema,
                                                               discriminator, data, path)
                  IN  IF ~serialized_data.ok THEN serialized_data
                      ELSE IF ~c.ok THEN c
                      ELSE IF HasProperty(item_schema, T.discriminator_field_name)
                      THEN serialized_data
                      ELSE Ok(DictSet(serialized_data.v, PyStr(T.discriminator_field_name),
                                      PyStr(discriminator)))
             ELSE OneOfStringType_serialize_loop(os, T, data, path, n + 1)

OneOfStringType_serialize(os, T, data, path) ==
    OneOfStringType_serialize_loop(os, T, data, path, 1)

-----------------------------------------------------------------------------
(* RefType and ScopeType *)

\* self._scope.objects[self.id]: looked up when the operation is called
RefType_unserialize(os, T, data, path) ==
    IF T.id \notin DOMAIN os THEN M(Raise("KeyError"), data)
    ELSE Unserialize(os, os[T.id], data, path)

\* Variant: an identifier that is not in the table validates as a default.
RefType_validate_Default(os, T, data, path) ==
    IF T.id \notin DOMAIN os THEN Ok(None)
    ELSE Validate(os, os[T.id], data, path)

RefType_validate(os, T, data, path) ==
    IF T.id \notin DOMAIN os THEN Raise("KeyError")
    ELSE Validate(os, os[T.id], data, path)

RefType_serialize(os, T, data, path) ==
    IF T.id \notin DOMAIN os THEN Raise("KeyError")
    ELSE Serialize(os, os[T.id], data, path)

\* root_object.__name__: root_object is an ObjectType instance; ObjectType and
\* its bases define no attribute __name__, so the lookup raises
ObjectType_name(root_object) == Raise("AttributeError")

ScopeType_unserialize(T, data, path) ==
    IF T.root \notin DOMAIN T.objects THEN M(Raise("KeyError"), data)
    ELSE LET root_object == T.objects[T.root]
             name == ObjectType_name(root_object)
         IN  IF ~name.ok THEN M(name, data)
             ELSE Unserialize(T.objects, root_object, data, Append(path, PyStr(name.v)))

ScopeType_validate(T, data, path) ==
    IF T.root \notin DOMAIN T.objects THEN Raise("KeyError")
    ELSE LET root_object == T.objects[T.root]
             name == ObjectType_name(root_object)
         IN  IF ~name.ok THEN name
             ELSE Validate(T.objects, root_object, data, Append(path, PyStr(name.v)))

ScopeType_serialize(T, data, path) ==
    IF T.root \notin DOMAIN T.objects THEN Raise("KeyError")
    ELSE LET root_object == T.objects[T.root]
             name == ObjectType_name(root_object)
         IN  IF ~name.ok THEN name
             ELSE Serialize(T.objects, root_object, data, Append(path, PyStr(name.v)))

-----------------------------------------------------------------------------

Unserialize(os, T, data, path) ==
    CASE T.t = "int" -> IntType_unserialize(T, data, path)
      [] T.t = "bool" -> BoolType_unserialize(T, data, path)
      [] T.t = "string" -> StringType_unserialize(T, data, path)
      [] T.t = "list" -> ListType_unserialize(os, T, data, path)
      [] T.t = "map" -> MapType_unserialize(os, T, data, path)
      [] T.t = "object" -> ObjectType_unserialize(os, T, data, path)
      [] T.t = "oneof" -> OneOfStringType_unserialize(os, T, data, path)
      [] T.t = "ref" -> RefType_unserialize(os, T, data, path)
      [] T.t = "scope" -> ScopeType_unserialize(T, data, path)

Validate(os, T, data, path) ==
    CASE T.t = "int" -> IntType_validate(T, data, path)
      [] T.t = "bool" -> BoolType_validate(T, data, path)
      [] T.t = "string" -> StringType_validate(T, data, path)
      [] T.t = "list" -> ListType_validate(os, T, data, path)
      [] T.t = "map" -> MapType_validate(os, T, data, path)
      [] T.t = "object" -> ObjectType_validate(os, T, data, path)
      [] T.t = "oneof" -> OneOfStringType_validate(os, T, data, path)
      [] T.t = "ref" -> RefType_validate(os, T, data, path)
      [] T.t = "scope" -> ScopeType_validate(T, data, path)

Serialize(os, T, data, path) ==
    CASE T.t = "int" -> IntType_serialize(T, data, path)
      [] T.t = "bool" -> BoolType_serialize(T, data, path)
      [] T.t = "string" -> StringType_serialize(T, data, path)
      [] T.t = "list" -> ListType_serialize(os, T, data, path)
      [] T.t = "map" -> MapType_serialize(os, T, data, path)
      [] T.t = "object" -> ObjectType_serialize(os, T, data, path)
      [] T.t = "oneof" -> OneOfStringType_serialize(os, T, data, path)
      [] T.t = "ref" -> RefType_serialize(os, T, data, path)
      [] T.t = "scope" -> ScopeType_serialize(T, data, path)

-----------------------------------------------------------------------------
(* The object definitions, nodes and values the operations are applied to *)

Unbounded == IntType({}, {})

\* The property names of the drawn two-property objects, in declaration
\* order; with useOverride the second property is stored in a field of
\* another name.
PropertyNames ==
    { [names |-> <<"a", "b">>, useOverride |-> FALSE],
      [names |-> <<"a", "b">>, useOverride |-> TRUE],
      [names |-> <<"a", "items">>, useOverride |-> FALSE],
      [names |-> <<"items", "a">>, useOverride |-> FALSE] }

RuleKinds == {"required", "required_if", "required_if_not", "conflicts"}
\* <<n, kind>>: property n carries a rule of that kind, naming the other property
RuleSets == {S \in SUBSET ({1, 2} \X RuleKinds) : Cardinality(S) <= MaxRules}

RuleProperty(pn, S, n) ==
    LET other == <<pn.names[3 - n]>>
    IN  PropertyType(pn.names[n], Unbounded,
                     <<n, "required">> \in S,
                     IF <<n, "required_if">> \in S THEN other ELSE <<>>,
                     IF <<n, "required_if_not">> \in S THEN other ELSE <<>>,
                     IF <<n, "conflicts">> \in S THEN other ELSE <<>>,
                     IF pn.useOverride /\ n = 2 THEN "field2" ELSE "")

\* The dataclass C behind a drawn object: a field per property, without a
\* default when the property is required and with the default None otherwise.
RuleObject(pn, S) ==
    LET ps == [n \in {1, 2} |-> RuleProperty(pn, S, n)]
    IN  ObjectType(
            Dataclass("C", [n \in {1, 2} |->
                Field(FieldId(ps[n]), IF ps[n].required THEN MISSING ELSE None)]),
            <<ps[1], ps[2]>>)

RuleObjects == {RuleObject(pn, S) : pn \in PropertyNames, S \in RuleSets}

\* what a raw mapping can hold under one key: nothing, null, an integer, or
\* a string the property's type rejects
RawSlots == {MISSING, None, PyInt(1), PyStr("x")}

RawMapping(T, s1, s2) ==
    PyDict((IF s1 = MISSING THEN <<>> ELSE << <<PyStr(T.properties[1].id), s1>> >>)
           \o (IF s2 = MISSING THEN <<>> ELSE << <<PyStr(T.properties[2].id), s2>> >>))

RuleObjectRaws(T) ==
    {RawMapping(T, s1, s2) : s1 \in RawSlots, s2 \in RawSlots}
    \cup {PyDict(<< <<PyStr("unknown"), PyInt(1)>> >>), PyInt(1),
          PyDict(Append(RawMapping(T, PyInt(1), PyStr("x")).d, <<PyStr("unknown"), PyInt(1)>>)),
          PyDict(<< <<PyInt(1), PyInt(1)>> >>), PyList(<<>>), None}

TypedSlots == {None, PyInt(1), PyStr("x")}

RuleObjectTypeds(T) ==
    {PyObj("C", (T.cls.fields[1].name :> v1) @@ (T.cls.fields[2].name :> v2)) :
        v1 \in TypedSlots, v2 \in TypedSlots}
    \cup {PyObj("Other", <<>>), None}

Case(os, T, raws, typeds) == [objs |-> os, node |-> T, raws |-> raws, typeds |-> typeds]

RuleCases == {Case(<<>>, T, RuleObjectRaws(T), RuleObjectTypeds(T)) : T \in RuleObjects}

\* sequences over S of length 0..n
RECURSIVE SeqsUpTo(_, _)
SeqsUpTo(S, n) ==
    IF n = 0 THEN {<<>>}
    ELSE LET shorter == SeqsUpTo(S, n - 1)
         IN  shorter \cup {Append(q, x) : q \in {r \in shorter : Len(r) = n - 1}, x \in S}

\* An object whose optional property b is stored in a dataclass field with
\* the default 1:  @dataclass class D: a: Optional[int] = None; b: Optional[int] = 1
DefaultObject ==
    ObjectType(Dataclass("D", <<Field("a", None), Field("b", PyInt(1))>>),
               <<PropertyType("a", Unbounded, FALSE, <<>>, <<>>, <<>>, ""),
                 PropertyType("b", Unbounded, FALSE, <<>>, <<>>, <<>>, "")>>)
DefaultObjectCase ==
    Case(<<>>, DefaultObject,
         {RawMapping(DefaultObject, s1, s2) : s1 \in RawSlots, s2 \in RawSlots},
         {PyObj("D", ("a" :> v1) @@ ("b" :> v2)) :
             v1 \in {None, PyInt(1)}, v2 \in {None, PyInt(1), PyInt(2)}})

\* a list of one or two integers between 0 and 2
IntList == ListType(IntType({0}, {2}), {1}, {2})
IntListCase ==
    Case(<<>>, IntList,
         {PyList(q) : q \in SeqsUpTo({PyInt(1), PyStr("2"), PyStr("x")}, 3)} \cup {None},
         {PyList(q) : q \in SeqsUpTo({PyInt(0), PyInt(3), PyBool(TRUE)}, 3)} \cup {None})

\* a map from integers to integers of one or two entries
IntMap == MapType(Unbounded, IntType({0}, {2}), {1}, {2})
\* the dicts that hold a subset of the keys ks, in order, with values from vs
SubDicts(ks, vs) ==
    {PyDict(SelectSeq([n \in 1..Len(ks) |-> <<ks[n], f[n]>>], LAMBDA e : e[2] # MISSING)) :
        f \in [1..Len(ks) -> vs \cup {MISSING}]}
IntMapCase ==
    Case(<<>>, IntMap,
         SubDicts(<<PyInt(1), PyStr("1"), PyStr("2")>>, {PyInt(1), PyStr("x")}) \cup {None},
         SubDicts(<<PyInt(1), PyInt(2), PyStr("k")>>, {PyInt(1), PyInt(3)}) \cup {None})

\* a one-of of two objects, neither of which declares the discriminator:
\*   @dataclass class X: a: int         @dataclass class Y: b: Optional[int] = None
MemberX ==
    ObjectType(Dataclass("X", <<Field("a", MISSING)>>),
               <<PropertyType("a", Unbounded, TRUE, <<>>, <<>>, <<>>, "")>>)
MemberY ==
    ObjectType(Dataclass("Y", <<Field("b", None)>>),
               <<PropertyType("b", Unbounded, FALSE, <<>>, <<>>, <<>>, "")>>)
OneOfXY == OneOfStringType(<< <<"x", MemberX>>, <<"y", MemberY>> >>, "_type")
OneOfTypeds ==
    {PyObj("X", "a" :> v) : v \in {None, PyInt(1)}}
    \cup {PyObj("Y", "b" :> v) : v \in {None, PyInt(1)}}
    \cup {PyObj("Z", <<>>), None}
OneOfCase ==
    Case(<<>>, OneOfXY,
         {PyDict(<< <<PyStr("_type"), t>> >> \o rest) :
             t \in {PyStr("x"), PyStr("y"), PyStr("z"), PyInt(1)},
             rest \in {<<>>, << <<PyStr("a"), PyInt(1)>> >>, << <<PyStr("b"), PyInt(1)>> >>}}
         \cup {PyDict(<< <<PyStr("a"), PyInt(1)>> >>), None},
         OneOfTypeds)

\* an object with a list, a map and a one-of property, reached through a Ref:
\*   @dataclass class N: l: Optional[List[int]] = None
\*                       m: Optional[Dict[int, int]] = None
\*                       o: Optional[Union[X, Y]] = None
NestedObject ==
    ObjectType(Dataclass("N", <<Field("l", None), Field("m", None), Field("o", None)>>),
               <<PropertyType("l", IntList, FALSE, <<>>, <<>>, <<>>, ""),
                 PropertyType("m", IntMap, FALSE, <<>>, <<>>, <<>>, ""),
                 PropertyType("o", OneOfXY, FALSE, <<>>, <<>>, <<>>, "")>>)
NestedRaws ==
    {PyDict(l \o m \o o) :
        l \in {<<>>, << <<PyStr("l"), PyList(<<PyInt(1), PyStr("2")>>)>> >>,
                     << <<PyStr("l"), PyList(<<PyInt(1), PyStr("x")>>)>> >>},
        m \in {<<>>, << <<PyStr("m"), PyDict(<< <<PyStr("1"), PyInt(1)>> >>)>> >>},
        o \in {<<>>, << <<PyStr("o"), PyDict(<< <<PyStr("_type"), PyStr("x")>>,
                                                  <<PyStr("a"), PyInt(1)>> >>)>> >>,
                     << <<PyStr("o"), PyDict(<< <<PyStr("_type"), PyStr("y")>> >>)>> >>}}
NestedTypeds ==
    {PyObj("N", ("l" :> l) @@ ("m" :> m) @@ ("o" :> o)) :
        l \in {None, PyList(<<PyInt(1), PyInt(2)>>), PyList(<<>>)},
        m \in {None, PyDict(<< <<PyInt(1), PyInt(1)>> >>), PyDict(<< <<PyInt(1), PyInt(3)>> >>)},
        o \in {None, PyObj("X", "a" :> PyInt(1)), PyObj("Y", "b" :> None)}}
NestedCase == Case("N" :> NestedObject, RefType("N"), NestedRaws, NestedTypeds)

\* a one-of with a key that is the string form of an integer
OneOfNum == OneOfStringType(<< <<"1", MemberX>>, <<"y", MemberY>> >>, "_type")
OneOfNumCase ==
    Case(<<>>, OneOfNum,
         {PyDict(<< <<PyStr("_type"), t>> >> \o rest) :
             t \in {PyStr("1"), PyInt(1), PyBool(TRUE), PyStr("y"), PyStr("z"), None},
             rest \in {<<>>, << <<PyStr("a"), PyInt(1)>> >>}}
         \cup {PyDict(<< <<PyStr("a"), PyInt(1)>> >>), PyList(<<>>), PyStr("1"), None},
         OneOfTypeds)

\* a one-of whose members declare the discriminator field as a property:
\*   @dataclass class T: _type: str; a: Optional[int] = None
\*   @dataclass class U: _type: str; a: Optional[int] = None
TaggedMember(name) ==
    ObjectType(Dataclass(name, <<Field("_type", MISSING), Field("a", None)>>),
               <<PropertyType("_type", StringType({}, {}), TRUE, <<>>, <<>>, <<>>, ""),
                 PropertyType("a", Unbounded, FALSE, <<>>, <<>>, <<>>, "")>>)
OneOfTU == OneOfStringType(<< <<"t", TaggedMember("T")>>, <<"u", TaggedMember("U")>> >>, "_type")
OneOfTUCase ==
    Case(<<>>, OneOfTU,
         {PyDict(<< <<PyStr("_type"), t>> >> \o rest) :
             t \in {PyStr("t"), PyStr("u"), PyStr("z")},
             rest \in {<<>>, << <<PyStr("a"), PyInt(1)>> >>}}
         \cup {PyDict(<<>>)},
         {PyObj(c, ("_type" :> t) @@ ("a" :> v)) :
             c \in {"T", "U", "Z"},
             t \in {PyStr("t"), PyStr("u"), PyStr("z"), PyInt(1), None},
             v \in {None, PyInt(1), PyStr("x")}}
         \cup {None, PyInt(1)})

\* a self-referential object, registered in a scope under its class name:
\*   @dataclass class Node: value: int; next: Optional[Node] = None
NodeObject ==
    ObjectType(Dataclass("Node", <<Field("value", MISSING), Field("next", None)>>),
               <<PropertyType("value", Unbounded, TRUE, <<>>, <<>>, <<>>, ""),
                 PropertyType("next", RefType("Node"), FALSE, <<>>, <<>>, <<>>, "")>>)
NodeObjects == "Node" :> NodeObject
NodeScope == ScopeType("Node", NodeObjects)

\* the raw chain of n mappings around the innermost mapping end
RECURSIVE RawChainOn(_, _)
RawChainOn(n, end) ==
    IF n = 0 THEN end
    ELSE PyDict(<< <<PyStr("value"), PyInt(n)>>, <<PyStr("next"), RawChainOn(n - 1, end)>> >>)
RawChain(n) == RawChainOn(n - 1, PyDict(<< <<PyStr("value"), PyInt(0)>> >>))
\* the typed chain of n instances around the innermost value end
RECURSIVE TypedChainOn(_, _)
TypedChainOn(n, end) ==
    IF n = 0 THEN end
    ELSE PyObj("Node", ("value" :> PyInt(n)) @@ ("next" :> TypedChainOn(n - 1, end)))
TypedChain(n) == TypedChainOn(n - 1, PyObj("Node", ("value" :> PyInt(0)) @@ ("next" :> None)))

NodeRaws ==
    {RawChain(n) : n \in 1..MaxDepth}
    \cup {RawChainOn(n, end) : n \in 0..(MaxDepth - 1),
              end \in {PyDict(<< <<PyStr("value"), PyStr("x")>> >>), PyDict(<<>>), PyInt(1)}}
NodeTypeds ==
    {TypedChain(n) : n \in 1..MaxDepth}
    \cup {TypedChainOn(n, end) : n \in 0..(MaxDepth - 1),
              end \in {PyObj("Node", ("value" :> PyStr("x")) @@ ("next" :> None)),
                        PyObj("Other", <<>>)}}
NodeCases ==
    {Case(<<>>, NodeScope, NodeRaws, NodeTypeds),
     Case(NodeObjects, RefType("Node"), NodeRaws, NodeTypeds)}

\* an object with a map of lists of integers:
\*   @dataclass class P: m: Optional[Dict[str, List[int]]] = None
\* with keys of at most one character and elements between 0 and 2
DeepObject ==
    ObjectType(Dataclass("P", <<Field("m", None)>>),
               <<PropertyType("m",
                     MapType(StringType({}, {1}), ListType(IntType({0}, {2}), {}, {}), {}, {}),
                     FALSE, <<>>, <<>>, <<>>, "")>>)
\* the keys and values of the raw maps: a key, a key that is too long, an
\* integer key as a YAML document gives it
DeepValues ==
    {PyList(q) : q \in SeqsUpTo({PyInt(1), PyStr("x")}, 2)} \cup {PyInt(1)}
DeepRaws ==
    {PyDict(<< <<PyStr("m"), PyDict(<< <<k, v>> >>)>> >>) : k \in {PyStr("y"), PyStr("long"), PyInt(2)}, v \in DeepValues}
    \cup {PyDict(<< <<PyStr("m"), PyDict(<< <<PyStr("y"), PyList(<<PyInt(1)>>)>>, <<k, v>> >>)>> >>) :
              k \in {PyStr("z"), PyInt(2)}, v \in DeepValues}
DeepCase ==
    Case(<<>>, DeepObject, DeepRaws,
         {PyObj("P", "m" :> PyDict(<< <<k, v>> >>)) :
             k \in {PyStr("y"), PyStr("long"), PyInt(2)},
             v \in {PyList(q) : q \in SeqsUpTo({PyInt(1), PyInt(3)}, 2)} \cup {PyInt(1)}})

\* booleans in the forms a YAML or JSON document and a caller give them
BoolCase ==
    Case(<<>>, BoolType,
         {PyBool(b) : b \in BOOLEAN} \cup {PyInt(i) : i \in (0 - 1)..2}
         \cup {PyStr(w) : w \in {"yes", "YES", "yEs", "on", "On", "true", "TRUE", "enable",
                                 "Enable", "enabled", "ENABLED", "1", "no", "No", "off",
                                 "OFF", "false", "False", "disable", "DISABLE", "disabled",
                                 "Disabled", "0", "maybe", "Maybe", "2", "", "y"}}
         \cup {None, PyList(<<>>), PyDict(<<>>)},
         {PyBool(b) : b \in BOOLEAN} \cup {PyInt(0), PyInt(1), PyStr("true"), None})

\* integers with every combination of an unset bound, 0 and 2
IntCases ==
    {Case(<<>>, IntType(min, max),
          {PyInt(i) : i \in (0 - 1)..3}
          \cup {PyStr(w) : w \in {"0", "1", "2", "3", "-1", "x", ""}}
          \cup {PyBool(TRUE), None, PyList(<<>>)},
          {PyInt(i) : i \in (0 - 1)..3} \cup {PyBool(TRUE), PyStr("1"), None}) :
        min \in {{}, {0}, {2}}, max \in {{}, {0}, {2}}}

\* The objects a scope's table receives after the scope and the references
\* into it were created.
Registry == ("N" :> NestedObject) @@ ("Node" :> NodeObject)
\* references whose target is not in the table yet
LateRefCases ==
    {Case(<<>>, RefType("N"), NestedRaws, NestedTypeds),
     Case(<<>>, RefType("Node"), NodeRaws, NodeTypeds),
     Case(<<>>, RefType("Unknown"), NodeRaws, NodeTypeds)}

Cases ==
    RuleCases \cup {DefaultObjectCase, IntListCase, IntMapCase, OneOfCase, NestedCase,
                    OneOfNumCase, OneOfTUCase, DeepCase, BoolCase}
    \cup NodeCases \cup LateRefCases \cup IntCases

-----------------------------------------------------------------------------
(* Applying the three operations to a drawn node and value *)

NoOp == [op |-> "none"]
\* no concurrent callers, no command line, no builder, no call under way
AuxIdle ==
    threads = <<>> /\ sys_stdout = 0 /\ run = None /\ build = None /\ stack = <<>>
NoCall == [entry |-> "none"]

Init ==
    /\ \E c \in Cases :
          /\ objs = c.objs
          /\ node = c.node
          /\ \/ form = "raw" /\ val \in c.raws
             \/ form = "typed" /\ val \in c.typeds
    /\ last = NoOp
    /\ prev = NoOp
    /\ nops = 0
    /\ AuxIdle
    /\ pc = "idle"
    /\ call = NoCall
    /\ input_param = None
    /\ result = None
    /\ outcome = None
    /\ events = <<>>

\* node.unserialize(val): on success the caller goes on with the typed value,
\* on failure it still holds the raw object
DoUnserialize ==
    /\ form = "raw"
    /\ nops < MaxOps
    /\ LET u == Unserialize(objs, node, val, <<>>)
       IN  /\ last' = [op |-> "unserialize", in |-> val, out |-> u.r, after |-> u.data,
                    os |-> objs]
           /\ val' = IF u.r.ok THEN u.r.v ELSE u.data
           /\ form' = IF u.r.ok THEN "typed" ELSE "raw"
    /\ prev' = last
    /\ nops' = nops + 1
    /\ UNCHANGED <<objs, node>>
    /\ UNCHANGED callVars
    /\ UNCHANGED auxVars

\* node.validate(val)
DoValidate ==
    /\ form = "typed"
    /\ nops < MaxOps
    /\ last' = [op |-> "validate", in |-> val, out |-> Validate(objs, node, val, <<>>),
                    os |-> objs]
    /\ prev' = last
    /\ nops' = nops + 1
    /\ UNCHANGED <<objs, node, val, form>>
    /\ UNCHANGED callVars
    /\ UNCHANGED auxVars

\* node.serialize(val): on success the caller goes on with the raw value
DoSerialize ==
    /\ form = "typed"
    /\ nops < MaxOps
    /\ LET r == Serialize(objs, node, val, <<>>)
       IN  /\ last' = [op |-> "serialize", in |-> val, out |-> r,
                    os |-> objs]
           /\ val' = IF r.ok THEN r.v ELSE val
           /\ form' = IF r.ok THEN "raw" ELSE "typed"
    /\ prev' = last
    /\ nops' = nops + 1
    /\ UNCHANGED <<objs, node>>
    /\ UNCHANGED callVars
    /\ UNCHANGED auxVars

\* scope.objects[id] = ObjectType(...): the target of a reference is added to
\* the table of the scope the reference was created with
AddObject ==
    /\ node.t = "ref"
    /\ node.id \notin DOMAIN objs
    /\ node.id \in DOMAIN Registry
    /\ objs' = objs @@ (node.id :> Registry[node.id])
    /\ UNCHANGED <<node, val, form, last, prev, nops>>
    /\ UNCHANGED callVars
    /\ UNCHANGED auxVars

Next == DoUnserialize \/ DoValidate \/ DoSerialize \/ AddObject

Spec == Init /\ [][Next]_vars

-----------------------------------------------------------------------------
(* Step and schema dispatch: SchemaType.__call__ and StepType.__call__ *)

\* StepType: the input node and the output nodes by output id
StepType(input, outputs) == [input |-> input, outputs |-> outputs]

\*   @dataclass class In: n: int            (0 <= n <= 2)
\*   @dataclass class Out: r: int           (0 <= r <= 2)
\*   @dataclass class Err: msg: Optional[int] = None
InObject ==
    ObjectType(Dataclass("In", <<Field("n", MISSING)>>),
               <<PropertyType("n", IntType({0}, {2}), TRUE, <<>>, <<>>, <<>>, "")>>)
OutObject ==
    ObjectType(Dataclass("Out", <<Field("r", MISSING)>>),
               <<PropertyType("r", IntType({0}, {2}), TRUE, <<>>, <<>>, <<>>, "")>>)
ErrObject ==
    ObjectType(Dataclass("Err", <<Field("msg", None)>>),
               <<PropertyType("msg", Unbounded, FALSE, <<>>, <<>>, <<>>, "")>>)

\* The schema under call: step "plain" binds object nodes directly, step
\* "scoped" wraps the same objects in scopes.
steps ==
    ("plain" :> StepType(InObject,
                         ("success" :> OutObject) @@ ("error" :> ErrObject)))
    @@ ("scoped" :> StepType(ScopeType("In", "In" :> InObject),
                             ("success" :> ScopeType("Out", "Out" :> OutObject))
                             @@ ("error" :> ScopeType("Err", "Err" :> ErrObject))))

StepIds == {"plain", "scoped", "missing"}
RawInputs ==
    {PyDict(<< <<PyStr("n"), PyInt(1)>> >>), PyDict(<< <<PyStr("n"), PyStr("x")>> >>),
     PyDict(<<>>), PyInt(1)}
TypedInputs == {PyObj("In", "n" :> PyInt(1)), PyObj("In", "n" :> PyInt(3)), None}
OutputValues ==
    {PyObj("Out", "r" :> PyInt(1)), PyObj("Out", "r" :> PyInt(3)),
     PyObj("Err", "msg" :> None), None}
\* what a handler can return: a tuple of one, two or three elements
HandlerResults ==
    {<<PyStr("success")>>}
    \cup {<<PyStr(id), v>> : id \in {"success", "error", "undeclared"}, v \in OutputValues}
    \cup {<<PyStr("success"), PyObj("Out", "r" :> PyInt(1)), None>>}

Return(v) == [kind |-> "return", v |-> v]
\* an exception that leaves the call as it was raised
Propagate(e) == [kind |-> "raise", exc |-> e.exc, constraint |-> e]
\* raise InvalidInputException(e) from e, and its output twin
InvalidInputException(e) ==
    [kind |-> "raise", exc |-> "InvalidInputException", constraint |-> e]
InvalidOutputException(e) ==
    [kind |-> "raise", exc |-> "InvalidOutputException", constraint |-> e]
NoSuchStepException(step_id) ==
    [kind |-> "raise", exc |-> "NoSuchStepException", constraint |-> Raise("NoSuchStepException")]
BadArgumentException ==
    [kind |-> "raise", exc |-> "BadArgumentException", constraint |-> Raise("BadArgumentException")]

Event(name, out) == [name |-> name, out |-> out]

SchemaCalls ==
    {[entry |-> "schema", step_id |-> id, data |-> d, skip_serialization |-> ss,
      skip_input_validation |-> TRUE, skip_output_validation |-> TRUE] :
        id \in StepIds, d \in RawInputs, ss \in BOOLEAN}
StepCalls ==
    {[entry |-> "step", step_id |-> id, data |-> d, skip_serialization |-> FALSE,
      skip_input_validation |-> si, skip_output_validation |-> so] :
        id \in {"plain", "scoped"}, d \in TypedInputs, si \in BOOLEAN, so \in BOOLEAN}

\* A caller invokes the schema (SchemaType.__call__) or a step directly
\* (StepType.__call__).
InitCall ==
    /\ objs = <<>>
    /\ node = None
    /\ val = None
    /\ form = "none"
    /\ last = NoOp
    /\ prev = NoOp
    /\ nops = 0
    /\ AuxIdle
    /\ call \in SchemaCalls \cup StepCalls
    /\ pc = IF call.entry = "schema" THEN "schema_call" ELSE "step_call"
    /\ input_param = IF call.entry = "schema" THEN None ELSE call.data
    /\ result = <<>>
    /\ outcome = None
    /\ events = <<>>

Finish(o) == pc' = "done" /\ outcome' = o

\* SchemaType.__call__, the step lookup
SchemaLookup ==
    /\ pc = "schema_call"
    /\ IF call.step_id \notin DOMAIN steps
       THEN /\ Finish(NoSuchStepException(call.step_id))
            /\ events' = Append(events, Event("lookup", Raise("NoSuchStepException")))
       ELSE /\ pc' = "unserialize_input"
            /\ events' = Append(events, Event("lookup", Ok(None)))
            /\ UNCHANGED outcome
    /\ UNCHANGED <<call, input_param, result>>
    /\ UNCHANGED typeVars
    /\ UNCHANGED auxVars

\* Variant: the except clause is missing, the ConstraintException propagates.
SchemaUnserializeInput_Unwrapped ==
    /\ pc = "unserialize_input"
    /\ LET step == steps[call.step_id]
           u == Unserialize(<<>>, step.input, call.data, <<>>)
       IN  /\ events' = Append(events, Event("unserialize", u.r))
           /\ IF u.r.ok
              THEN pc' = "step_call" /\ input_param' = u.r.v /\ UNCHANGED outcome
              ELSE Finish(Propagate(u.r)) /\ UNCHANGED input_param
    /\ UNCHANGED <<call, result>>
    /\ UNCHANGED typeVars
    /\ UNCHANGED auxVars

\* Variant: a failed decode is swallowed and the step is called with None.
SchemaUnserializeInput_Swallowed ==
    /\ pc = "unserialize_input"
    /\ LET step == steps[call.step_id]
           u == Unserialize(<<>>, step.input, call.data, <<>>)
       IN  /\ events' = Append(events, Event("unserialize", u.r))
           /\ input_param' = IF u.r.ok THEN u.r.v ELSE None
    /\ pc' = "step_call"
    /\ UNCHANGED <<call, result, outcome>>
    /\ UNCHANGED typeVars
    /\ UNCHANGED auxVars

\* SchemaType._unserialize_input, as called from __call__
SchemaUnserializeInput ==
    /\ pc = "unserialize_input"
    /\ LET step == steps[call.step_id]
           u == Unserialize(<<>>, step.input, call.data, <<>>)
       IN  /\ events' = Append(events, Event("unserialize", u.r))
           /\ IF u.r.ok
              THEN pc' = "step_call" /\ input_param' = u.r.v /\ UNCHANGED outcome
              ELSE /\ Finish(IF IsConstraintException(u.r)
                             THEN InvalidInputException(u.r) ELSE Propagate(u.r))
                   /\ UNCHANGED input_param
    /\ UNCHANGED <<call, result>>
    /\ UNCHANGED typeVars
    /\ UNCHANGED auxVars

\* StepType.__call__ up to the call of the handler
StepValidateInput ==
    /\ pc = "step_call"
    /\ LET step == steps[call.step_id]
           r == IF call.skip_input_validation THEN Ok(None)
                ELSE Validate(<<>>, step.input, input_param, <<PyStr("input")>>)
       IN  IF r.ok
           THEN pc' = "handler" /\ UNCHANGED <<outcome, events>>
           ELSE Finish(Propagate(r)) /\ events' = Append(events, Event("validate_input", r))
    /\ UNCHANGED <<call, input_param, result>>
    /\ UNCHANGED typeVars
    /\ UNCHANGED auxVars

\* self._handler(params): the handler is the plugin author's code
StepHandler ==
    /\ pc = "handler"
    /\ \E res \in HandlerResults :
          /\ result' = res
          /\ events' = Append(events, Event("handler", Ok(PyList(res))))
    /\ pc' = "handler_returned"
    /\ UNCHANGED <<call, input_param, outcome>>
    /\ UNCHANGED typeVars
    /\ UNCHANGED auxVars

\* Variant: the output id is not checked against the declared outputs.
StepCheckResult_Unchecked ==
    /\ pc = "handler_returned"
    /\ IF Len(result) # 2
       THEN Finish(BadArgumentException)
       ELSE Finish(Return(<<result[1], result[2]>>))
    /\ UNCHANGED <<call, input_param, result, events>>
    /\ UNCHANGED typeVars
    /\ UNCHANGED auxVars

\* StepType.__call__ after the handler returned
StepCheckResult ==
    /\ pc = "handler_returned"
    /\ LET step == steps[call.step_id]
       IN  IF Len(result) # 2
           THEN Finish(BadArgumentException) /\ UNCHANGED events
           ELSE LET output_id == result[1]
                    output_data == result[2]
                IN  IF ~(IsInstanceStr(output_id) /\ output_id.s \in DOMAIN step.outputs)
                    THEN Finish(BadArgumentException) /\ UNCHANGED events
                    ELSE LET r == IF call.skip_output_validation THEN Ok(None)
                                  ELSE Validate(<<>>, step.outputs[output_id.s], output_data,
                                                <<PyStr("output"), output_id>>)
                         IN  IF ~r.ok
                             THEN /\ Finish(Propagate(r))
                                  /\ events' = Append(events, Event("validate_output", r))
                             ELSE /\ UNCHANGED events
                                  /\ IF call.entry = "schema"
                                     THEN pc' = "output" /\ UNCHANGED outcome
                                     ELSE Finish(Return(<<output_id, output_data>>))
    /\ UNCHANGED <<call, input_param, result>>
    /\ UNCHANGED typeVars
    /\ UNCHANGED auxVars

\* SchemaType.__call__ after the step returned: validate with
\* skip_serialization, _serialize_output otherwise
SchemaOutput ==
    /\ pc = "output"
    /\ LET step == steps[call.step_id]
           output_id == result[1]
           output_data == result[2]
       IN  IF call.skip_serialization
           THEN LET r == Validate(<<>>, step.outputs[output_id.s], output_data, <<>>)
                IN  /\ events' = Append(events, Event("validate_output", r))
                    /\ Finish(IF r.ok THEN Return(<<output_id, output_data>>)
                              ELSE Propagate(r))
           ELSE LET r == Serialize(<<>>, step.outputs[output_id.s], output_data, <<>>)
                IN  /\ events' = Append(events, Event("serialize", r))
                    /\ Finish(IF r.ok THEN Return(<<output_id, r.v>>)
                              ELSE IF IsConstraintException(r)
                              THEN InvalidOutputException(r) ELSE Propagate(r))
    /\ UNCHANGED <<call, input_param, result>>
    /\ UNCHANGED typeVars
    /\ UNCHANGED auxVars

NextCall ==
    \/ SchemaLookup
    \/ SchemaUnserializeInput
    \/ StepValidateInput
    \/ StepHandler
    \/ StepCheckResult
    \/ SchemaOutput

SpecCall == InitCall /\ [][NextCall]_vars

-----------------------------------------------------------------------------
(* Concurrent callers of one built tree *)

\* The trees the callers share, each with the raw and the typed values the
\* callers pass: a reference into a scope table of a recursive object, and
\* one into a table of an object with a list, a map and a one-of.
ConcCases ==
    {Case(NodeObjects, RefType("Node"),
          {RawChain(2), RawChainOn(1, PyInt(1))},
          {TypedChain(2), TypedChainOn(1, PyObj("Other", <<>>))}),
     Case("N" :> NestedObject, RefType("N"),
          {PyDict(<< <<PyStr("l"), PyList(<<PyInt(1), PyStr("2")>>)>> >>),
           PyDict(<< <<PyStr("m"), PyDict(<<>>)>> >>)},
          {PyObj("N", ("l" :> PyList(<<PyInt(1)>>)) @@ ("m" :> None) @@ ("o" :> None)),
           PyObj("N", ("l" :> None) @@ ("m" :> None) @@ ("o" :> PyObj("Z", <<>>)))})}

IdleThread ==
    [pc |-> "idle", op |-> "none", data |-> None, tree |-> None,
     original_stdout |-> 0, input_param |-> None, out |-> None]

InitConc ==
    /\ \E c \in ConcCases :
          /\ objs = c.objs
          /\ node = c.node
          /\ val = c
    /\ form = "none"
    /\ last = NoOp
    /\ prev = NoOp
    /\ nops = 0
    /\ pc = "idle"
    /\ call = NoCall
    /\ input_param = None
    /\ result = None
    /\ outcome = None
    /\ events = <<>>
    /\ threads = [t \in 1..MaxThreads |-> IdleThread]
    /\ sys_stdout = 0
    /\ run = None
    /\ build = None
    /\ stack = <<>>

\* A caller starts an operation on the tree with data of its own: one of the
\* three operations of the node, or the execution of a step whose input and
\* output are the node (plugin._execute_file).
ThreadInvoke(t) ==
    /\ threads[t].pc = "idle"
    /\ \E op \in {"unserialize", "validate", "serialize", "execute"} :
       \E data \in (IF op \in {"unserialize", "execute"} THEN val.raws ELSE val.typeds) :
          threads' = [threads EXCEPT ![t] =
              [IdleThread EXCEPT !.pc = "called", !.op = op, !.data = data,
                                 !.tree = [objs |-> objs, node |-> node]]]
    /\ UNCHANGED <<sys_stdout, typeVars, callVars, run, build, stack>>

\* the same, with a reference that forgets its target once it resolved it
ThreadOperate_Forgetting(t) ==
    /\ threads[t].pc = "called"
    /\ threads[t].op \in {"unserialize", "validate", "serialize"}
    /\ LET th == threads[t]
           r == CASE th.op = "unserialize" -> Unserialize(objs, node, th.data, <<>>).r
                  [] th.op = "validate" -> Validate(objs, node, th.data, <<>>)
                  [] th.op = "serialize" -> Serialize(objs, node, th.data, <<>>)
       IN  threads' = [threads EXCEPT ![t].pc = "done", ![t].out = r]
    /\ objs' = <<>>
    /\ UNCHANGED <<sys_stdout, node, val, form, last, prev, nops, callVars, run, build,
                   stack>>

\* node.unserialize(data), node.validate(data) or node.serialize(data) of a
\* caller: the reference reads the scope's table and assigns nothing
ThreadOperate(t) ==
    /\ threads[t].pc = "called"
    /\ threads[t].op \in {"unserialize", "validate", "serialize"}
    /\ LET th == threads[t]
           r == CASE th.op = "unserialize" -> Unserialize(objs, node, th.data, <<>>).r
                  [] th.op = "validate" -> Validate(objs, node, th.data, <<>>)
                  [] th.op = "serialize" -> Serialize(objs, node, th.data, <<>>)
       IN  threads' = [threads EXCEPT ![t].pc = "done", ![t].out = r]
    /\ UNCHANGED <<sys_stdout, typeVars, callVars, run, build, stack>>

\* _execute_file: sys.stdout is saved and bound to the caller's buffer
ExecRedirect(t) ==
    /\ threads[t].pc = "called"
    /\ threads[t].op = "execute"
    /\ threads' = [threads EXCEPT ![t].pc = "redirected", ![t].original_stdout = sys_stdout]
    /\ sys_stdout' = t
    /\ UNCHANGED <<typeVars, callVars, run, build, stack>>

\* what _execute_file makes of a failure: the exit code 65 or 70 for the two
\* exceptions it catches, the exception itself and no exit code (-1) otherwise
ExitOrRaise(r, wrapped, code) ==
    IF IsConstraintException(r)
    THEN [exit |-> code, written |-> None, exc |-> wrapped]
    ELSE [exit |-> 0 - 1, written |-> None, exc |-> r.exc]

\* s(step_id, data), first half: the input is decoded
ExecUnserializeInput(t) ==
    /\ threads[t].pc = "redirected"
    /\ LET u == Unserialize(objs, node, threads[t].data, <<>>)
       IN  threads' = [threads EXCEPT ![t] =
               IF u.r.ok
               THEN [@ EXCEPT !.pc = "decoded", !.input_param = u.r.v]
               ELSE [@ EXCEPT !.pc = "finally",
                              !.out = ExitOrRaise(u.r, "InvalidInputException", 65)]]
    /\ UNCHANGED <<sys_stdout, typeVars, callVars, run, build, stack>>

\* s(step_id, data), second half: the handler hands its input back as the
\* output, the output is encoded and written
ExecSerializeOutput(t) ==
    /\ threads[t].pc = "decoded"
    /\ LET r == Serialize(objs, node, threads[t].input_param, <<>>)
       IN  threads' = [threads EXCEPT ![t].pc = "finally", ![t].out =
               IF r.ok THEN [exit |-> 0, written |-> r.v, exc |-> "none"]
               ELSE ExitOrRaise(r, "InvalidOutputException", 70)]
    /\ UNCHANGED <<sys_stdout, typeVars, callVars, run, build, stack>>

\* _execute_file, the finally clause: sys.stdout is bound to what was saved
ExecFinally(t) ==
    /\ threads[t].pc = "finally"
    /\ threads' = [threads EXCEPT ![t].pc = "done"]
    /\ sys_stdout' = threads[t].original_stdout
    /\ UNCHANGED <<typeVars, callVars, run, build, stack>>

NextConc ==
    \E t \in 1..MaxThreads :
        \/ ThreadInvoke(t)
        \/ ThreadOperate(t)
        \/ ExecRedirect(t)
        \/ ExecUnserializeInput(t)
        \/ ExecSerializeOutput(t)
        \/ ExecFinally(t)

SpecConc == InitConc /\ [][NextConc]_vars

-----------------------------------------------------------------------------
(* The command line: plugin.run *)

\* What the command line and the environment hold. "none" stands for an
\* option that was not given; single: the schema has the step "plain" only,
\* otherwise it has the two steps of the table above; parse_error: the option
\* parser rejects the arguments; remaining: an argument is left unparsed.
RunArgs ==
    {a \in [parse_error : BOOLEAN, remaining : BOOLEAN, single : BOOLEAN, debug : BOOLEAN,
            step : {"none", "plain", "scoped", "missing"},
            filename : {"none", "-", "in.yaml", "absent.yaml"},
            json_schema : {"none", "input", "output", "other"}] :
        a.single => a.step # "scoped"}

\* s.steps of the schema that is run; a step id that a single-step schema
\* lacks and the table has is not drawn, so that the lookup in the table
\* gives what the lookup in s.steps gives
RunSteps(a) == IF a.single THEN {"plain"} ELSE DOMAIN steps

InitRun ==
    /\ objs = <<>>
    /\ node = None
    /\ val = None
    /\ form = "none"
    /\ last = NoOp
    /\ prev = NoOp
    /\ nops = 0
    /\ pc = "idle"
    /\ call = NoCall
    /\ input_param = None
    /\ result = <<>>
    /\ outcome = None
    /\ events = <<>>
    /\ threads = <<>>
    /\ sys_stdout = 0
    /\ build = None
    /\ stack = <<>>
    /\ \E a \in RunArgs :
          run = [args |-> a, stage |-> "start", step_id |-> "none", exit |-> 0 - 1,
                 exc |-> "none"]

\* return <exit code>, directly or through except _ExitException
RunReturn(code) == run' = [run EXCEPT !.stage = "returned", !.exit = code]
\* an exception that run does not catch
RunRaise(exc) == run' = [run EXCEPT !.stage = "raised", !.exc = exc]

\* run, from the option parser to the choice of what to do
RunParse ==
    /\ run.stage = "start"
    /\ LET a == run.args
       IN  IF a.parse_error THEN RunReturn(2)
           ELSE IF a.remaining THEN RunReturn(64)
           ELSE IF Cardinality(RunSteps(a)) > 1 /\ a.step = "none" THEN RunReturn(64)
           ELSE LET step_id == IF a.step # "none" THEN a.step ELSE "plain"
                IN  IF a.filename # "none"
                    THEN run' = [run EXCEPT !.stage = "execute_file", !.step_id = step_id]
                    ELSE IF a.json_schema # "none"
                    THEN run' = [run EXCEPT !.stage = "print_json_schema",
                                            !.step_id = step_id]
                    ELSE RunReturn(64)
    /\ UNCHANGED <<typeVars, callVars, threads, sys_stdout, build, stack>>

\* _execute_file up to the call s(step_id, data): the file is loaded, a
\* LoadFromFileException is caught in run
RunExecuteFile ==
    /\ run.stage = "execute_file"
    /\ IF run.args.filename = "absent.yaml"
       THEN RunReturn(64) /\ UNCHANGED <<pc, call>>
       ELSE /\ run' = [run EXCEPT !.stage = "called"]
            /\ \E data \in RawInputs :
                  call' = [entry |-> "schema", step_id |-> run.step_id, data |-> data,
                           skip_serialization |-> FALSE, skip_input_validation |-> TRUE,
                           skip_output_validation |-> TRUE]
            /\ pc' = "schema_call"
    /\ UNCHANGED <<typeVars, input_param, result, outcome, events, threads, sys_stdout,
                   build, stack>>

\* _execute_file after s(step_id, data) returned or raised
RunExecuted ==
    /\ run.stage = "called"
    /\ pc = "done"
    /\ IF outcome.kind = "return" THEN RunReturn(0)
       ELSE IF outcome.exc = "InvalidInputException" THEN RunReturn(65)
       ELSE IF outcome.exc = "InvalidOutputException" THEN RunReturn(70)
       ELSE RunRaise(outcome.exc)
    /\ UNCHANGED <<typeVars, callVars, threads, sys_stdout, build, stack>>

\* _print_json_schema
RunPrintJsonSchema ==
    /\ run.stage = "print_json_schema"
    /\ IF run.args.json_schema \in {"input", "output"}
       THEN IF run.step_id \in RunSteps(run.args) THEN RunReturn(0) ELSE RunRaise("KeyError")
       ELSE RunReturn(64)
    /\ UNCHANGED <<typeVars, callVars, threads, sys_stdout, build, stack>>

NextRun ==
    \/ RunParse
    \/ RunExecuteFile
    \/ RunExecuted
    \/ RunPrintJsonSchema
    \/ NextCall

SpecRun == InitRun /\ [][NextRun]_vars

-----------------------------------------------------------------------------
(* Build time: plugin.build_schema, the annotations and _SchemaBuilder *)

\* A step as build_schema reads it: the id it is filed under and the handler
\* that tells two steps of one id apart.
StepDecls ==
    {[id |-> "a", handler |-> "f"], [id |-> "a", handler |-> "g"],
     [id |-> "b", handler |-> "f"]}

\* schema.Schema(steps_by_id); steps: sequence of <<id, step>> in dict order
Schema(steps_by_id) == [t |-> "schema", steps |-> steps_by_id]

\* step.id in steps_by_id
InStepsById(steps_by_id, id) == \E n \in 1..Len(steps_by_id) : steps_by_id[n][1] = id

\* steps_by_id[step.id] = step with no look at what is filed already: the
\* entry of an id that is filed is replaced in place
RECURSIVE build_schema_loop_Overwriting(_, _, _)
build_schema_loop_Overwriting(args, n, steps_by_id) ==
    IF n > Len(args) THEN Ok(Schema(steps_by_id))
    ELSE build_schema_loop_Overwriting(args, n + 1,
            IF InStepsById(steps_by_id, args[n].id)
            THEN [m \in 1..Len(steps_by_id) |->
                     IF steps_by_id[m][1] = args[n].id THEN <<args[n].id, args[n]>>
                     ELSE steps_by_id[m]]
            ELSE Append(steps_by_id, <<args[n].id, args[n]>>))

\* the loop of build_schema from the n-th step on, and its return
RECURSIVE build_schema_loop(_, _, _)
build_schema_loop(args, n, steps_by_id) ==
    IF n > Len(args) THEN Ok(Schema(steps_by_id))
    ELSE IF InStepsById(steps_by_id, args[n].id) THEN Raise("BadArgumentException")
    ELSE build_schema_loop(args, n + 1, Append(steps_by_id, <<args[n].id, args[n]>>))

build_schema(args) == build_schema_loop(args, 1, <<>>)

\* Type annotations of dataclass fields, as the builder meets them -----------

AnnInt == [a |-> "int"]
\* the class object itself
AnnClass(name) == [a |-> "class", name |-> name]
\* typing.ForwardRef(name), what a quoted name inside typing.Optional[...] is
AnnForwardRef(name) == [a |-> "forward", name |-> name]
\* a bare quoted name: the annotation is a str instance
AnnStr(name) == [a |-> "str", name |-> name]
\* typing.Optional[of]
AnnOptional(of) == [a |-> "optional", of |-> of]
\* typing.Annotated[of, args...]; an arg is [fn, arg]: required_if(arg) or
\* required_if_not(arg)
AnnAnnotated(of, args) == [a |-> "annotated", of |-> of, args |-> args]

\* isinstance(x, PropertySchema)
IsPropertySchema(x) == "required" \in DOMAIN x

\* PropertyType(result): every other field takes the default of PropertySchema
NewPropertyType(type) == PropertyType("", type, FALSE, <<>>, <<>>, <<>>, "")

\* the attributes an instance of PropertyType has
PropertyTypeAttributes ==
    {"type", "display", "default", "examples", "required", "required_if",
     "required_if_not", "conflicts", "field_override"}

\* required_if that marks the property required as well
required_if_Requiring(name, t) ==
    IF ~IsPropertySchema(t) THEN Raise("BadArgumentException")
    ELSE Ok([t EXCEPT !.required = TRUE, !.required_if = Append(@, name)])

\* required_if(name)(t)
required_if(name, t) ==
    IF ~IsPropertySchema(t) THEN Raise("BadArgumentException")
    ELSE Ok([t EXCEPT !.required_if = Append(@, name)])

\* required_if_not(name)(t)
required_if_not(name, t) ==
    IF ~IsPropertySchema(t) THEN Raise("BadArgumentException")
    ELSE Ok([t EXCEPT !.required_if_not = Append(@, name)])

\* what a builder function hands back: its outcome r and scope.objects as the
\* call left it
Built(r, objects) == [r |-> r, objects |-> objects]

\* The dataclasses the builder is run on: name |-> fields in order, each
\* [name, type, default], default: the field has a default value.
BuildClasses ==
    ("Empty" :> <<>>)
    @@ ("Plain" :> << [name |-> "value", type |-> AnnInt, default |-> FALSE] >>)
    @@ ("Node" :> << [name |-> "next", type |-> AnnOptional(AnnClass("Node")),
                      default |-> TRUE] >>)
    @@ ("Tree" :> << [name |-> "value", type |-> AnnInt, default |-> FALSE],
                     [name |-> "child", type |-> AnnOptional(AnnClass("Tree")),
                      default |-> TRUE] >>)
    @@ ("Quoted" :> << [name |-> "next", type |-> AnnOptional(AnnForwardRef("Quoted")),
                        default |-> TRUE] >>)
    @@ ("Bare" :> << [name |-> "next", type |-> AnnStr("Bare"), default |-> TRUE] >>)
    @@ ("A" :> << [name |-> "b", type |-> AnnOptional(AnnClass("B")), default |-> TRUE] >>)
    @@ ("B" :> << [name |-> "a", type |-> AnnOptional(AnnClass("A")), default |-> TRUE] >>)

RECURSIVE _resolve(_, _, _)

\* _SchemaBuilder._resolve_field
_resolve_field(t, objects, depth) ==
    LET b == _resolve(t, objects, depth)
    IN  IF b.r.ok /\ ~IsPropertySchema(b.r.v) THEN Built(Ok(NewPropertyType(b.r.v)), b.objects)
        ELSE b

\* _SchemaBuilder._resolve_union for typing.Optional[t.of]
_resolve_union(t, objects, depth) ==
    LET b == _resolve_field(t.of, objects, depth)
    IN  IF ~b.r.ok THEN b ELSE Built(Ok([b.r.v EXCEPT !.required = FALSE]), b.objects)

\* the loop of _resolve_annotated from the n-th annotation on
RECURSIVE _resolve_annotated_loop(_, _, _)
_resolve_annotated_loop(args, n, underlying_t) ==
    IF n > Len(args) THEN Ok(underlying_t)
    ELSE LET r == IF args[n].fn = "required_if"
                  THEN required_if(args[n].arg, underlying_t)
                  ELSE required_if_not(args[n].arg, underlying_t)
         IN  IF ~r.ok THEN Raise("SchemaBuildException")
             ELSE _resolve_annotated_loop(args, n + 1, r.v)

\* _SchemaBuilder._resolve_annotated
_resolve_annotated(t, objects, depth) ==
    LET b == _resolve(t.of, objects, depth)
    IN  IF ~b.r.ok THEN b ELSE Built(_resolve_annotated_loop(t.args, 1, b.r.v), b.objects)

\* _SchemaBuilder._resolve_dataclass_field; the value is <<meta_id, property>>
_resolve_dataclass_field(f, objects, depth) ==
    LET b == _resolve_field(f.type, objects, depth)
    IN  IF ~b.r.ok THEN b
        ELSE IF "name" \notin PropertyTypeAttributes
        THEN Built(Raise("AttributeError"), b.objects)
        ELSE IF f.default
        THEN Built(Ok(<<f.name, [b.r.v EXCEPT !.required = FALSE]>>), b.objects)
        ELSE IF ~b.r.v.required THEN Built(Raise("SchemaBuildException"), b.objects)
        ELSE Built(Ok(<<f.name, b.r.v>>), b.objects)

\* the loop of _resolve_class over fields_list from the n-th field on; the
\* value is final_fields
RECURSIVE _resolve_class_loop(_, _, _, _, _)
_resolve_class_loop(fields_list, n, final_fields, objects, depth) ==
    IF n > Len(fields_list) THEN Built(Ok(final_fields), objects)
    ELSE LET b == _resolve_dataclass_field(fields_list[n], objects, depth)
         IN  IF ~b.r.ok THEN b
             ELSE _resolve_class_loop(fields_list, n + 1,
                     Append(final_fields,
                            [b.r.v[2] EXCEPT !.id = b.r.v[1]]), b.objects, depth)

\* _SchemaBuilder._resolve_class, depth calls deep; the interpreter raises
\* RecursionError where the call stack is used up
_resolve_class(name, objects, depth) ==
    IF depth > MaxRecursion THEN Built(Raise("RecursionError"), objects)
    ELSE LET b == _resolve_class_loop(BuildClasses[name], 1, <<>>, objects, depth + 1)
         IN  IF ~b.r.ok THEN b
             ELSE Built(Ok(RefType(name)),
                    (name :> ObjectType(Dataclass(name, <<>>), b.r.v)) @@ b.objects)

\* _SchemaBuilder._resolve
_resolve(t, objects, depth) ==
    CASE t.a = "class" -> _resolve_class(t.name, objects, depth)
      [] t.a = "int" -> Built(Ok(Unbounded), objects)
      [] t.a = "str" -> Built(Ok(StringType({}, {})), objects)
      [] t.a = "optional" -> _resolve_union(t, objects, depth)
      [] t.a = "annotated" -> _resolve_annotated(t, objects, depth)
      [] OTHER -> Built(Raise("SchemaBuildException"), objects)

\* build_object_schema(t) for the dataclass named root
build_object_schema(root) ==
    LET b == _resolve(AnnClass(root), <<>>, 1)
    IN  IF ~b.r.ok THEN b.r
        ELSE IF IsPropertySchema(b.r.v) THEN Raise("SchemaBuildException")
        ELSE IF b.r.v.t # "object" THEN Raise("SchemaBuildException")
        ELSE Ok(ScopeType(root, b.objects))

\* The discriminator annotation -------------------------------------------

OneOfIntType(types, discriminator_field_name) ==
    [t |-> "oneof_int", types |-> types,
     discriminator_field_name |-> discriminator_field_name]

\* StringSchema() and IntSchema(): plain dataclasses, no type node
StringSchema == [schema |-> "StringSchema"]
IntSchema == [schema |-> "IntSchema"]

\* bool(x) of a Python object that defines neither __bool__ nor __len__
IsTruthy(x) == x # None

\* item.properties[name]
PropertyOf(item, name) ==
    item.properties[CHOOSE n \in 1..Len(item.properties) : item.properties[n].id = name]

\* the second loop of discriminator(...).call from the n-th key on
RECURSIVE discriminator_validate_loop(_, _, _)
discriminator_validate_loop(oneof, n, discriminator_field_schema) ==
    IF n > Len(oneof.types) THEN Ok(oneof)
    ELSE IF "t" \notin DOMAIN discriminator_field_schema THEN Raise("AttributeError")
    ELSE LET key == IF oneof.t = "oneof" THEN PyStr(oneof.types[n][1])
                    ELSE PyInt(oneof.types[n][1])
         IN  IF ~Validate(<<>>, discriminator_field_schema, key, <<>>).ok
             THEN Raise("BadArgumentException")
             ELSE discriminator_validate_loop(oneof, n + 1, discriminator_field_schema)

\* the first loop of discriminator(...).call from the n-th member on, and
\* what follows it
RECURSIVE discriminator_loop(_, _, _, _)
discriminator_loop(discriminator_field_name, oneof, n, discriminator_field_schema) ==
    IF n > Len(oneof.types)
    THEN discriminator_validate_loop(
            [oneof EXCEPT !.discriminator_field_name = discriminator_field_name],
            1, discriminator_field_schema)
    ELSE LET item == oneof.types[n][2]
         IN  IF HasProperty(item, discriminator_field_name)
             THEN IF discriminator_field_schema # None
                     /\ IsTruthy(PropertyOf(item, discriminator_field_name).type)
                  THEN Raise("InvalidAnnotationException")
                  ELSE discriminator_loop(discriminator_field_name, oneof, n + 1,
                          PropertyOf(item, discriminator_field_name).type)
             ELSE discriminator_loop(discriminator_field_name, oneof, n + 1,
                     discriminator_field_schema)

\* discriminator(discriminator_field_name)(t)
discriminator(discriminator_field_name, t) ==
    IF t.t \notin {"oneof", "oneof_int"} THEN Raise("InvalidAnnotationException")
    ELSE discriminator_loop(discriminator_field_name, t, 1,
            IF t.t = "oneof" THEN StringSchema ELSE IntSchema)

\* What the builder is run on ------------------------------------------------

\* the field types drawn: an integer, bare or optional, under up to two
\* requiredness annotations, inside or outside the Optional
BuildAnnotations ==
    {[fn |-> "required_if", arg |-> "b"], [fn |-> "required_if_not", arg |-> "c"]}
BuildFieldTypes ==
    {AnnInt, AnnOptional(AnnInt)}
    \cup {AnnAnnotated(of, args) : of \in {AnnInt, AnnOptional(AnnInt)},
                                   args \in SeqsUpTo(BuildAnnotations, 2) \ {<<>>}}
    \cup {AnnOptional(AnnAnnotated(AnnInt, <<a>>)) : a \in BuildAnnotations}
    \cup {AnnAnnotated(AnnAnnotated(AnnOptional(AnnInt), <<a>>), <<a2>>) :
             a \in BuildAnnotations, a2 \in BuildAnnotations}

\* a member of a union: it declares the property "kind" as a string, as an
\* integer, or not at all
DiscMember(decl) ==
    ObjectType(Dataclass("M", IF decl = "none" THEN <<>> ELSE <<Field("kind", MISSING)>>),
               CASE decl = "none" -> <<>>
                 [] decl = "string" ->
                      <<PropertyType("kind", StringType({}, {}), TRUE, <<>>, <<>>, <<>>, "")>>
                 [] decl = "int" ->
                      <<PropertyType("kind", Unbounded, TRUE, <<>>, <<>>, <<>>, "")>>)

\* the unions discriminator("kind") is applied to: up to two members under
\* string keys or integer keys; and one target that is no union
DiscTargets ==
    {OneOfStringType([n \in 1..Len(ds) |-> <<<<"a", "b">>[n], DiscMember(ds[n])>>], "_type") :
        ds \in SeqsUpTo({"none", "string", "int"}, 2)}
    \cup {OneOfIntType([n \in 1..Len(ds) |-> <<n, DiscMember(ds[n])>>], "_type") :
             ds \in SeqsUpTo({"none", "string", "int"}, 2)}
    \cup {Unbounded}

BuildTasks ==
    {[kind |-> "schema", task |-> args] : args \in SeqsUpTo(StepDecls, MaxSteps)}
    \cup {[kind |-> "field", task |-> [name |-> "a", type |-> t, default |-> d]] :
             t \in BuildFieldTypes, d \in BOOLEAN}
    \cup {[kind |-> "discriminator", task |-> t] : t \in DiscTargets}
    \cup {[kind |-> "object", task |-> root] : root \in DOMAIN BuildClasses}

InitBuild ==
    /\ objs = <<>>
    /\ node = None
    /\ val = None
    /\ form = "none"
    /\ last = NoOp
    /\ prev = NoOp
    /\ nops = 0
    /\ pc = "idle"
    /\ call = NoCall
    /\ input_param = None
    /\ result = <<>>
    /\ outcome = None
    /\ events = <<>>
    /\ threads = <<>>
    /\ sys_stdout = 0
    /\ run = None
    /\ stack = <<>>
    /\ \E b \in BuildTasks :
          build = [kind |-> b.kind, task |-> b.task, stage |-> "start", out |-> None,
                   property |-> None]

\* plugin.build_schema(*args)
BuildSchema ==
    /\ build.kind = "schema" /\ build.stage = "start"
    /\ build' = [build EXCEPT !.stage = "done", !.out = build_schema(build.task)]
    /\ UNCHANGED <<typeVars, callVars, threads, sys_stdout, run, stack>>

\* _resolve_dataclass_field on one field; property: underlying_type as
\* _resolve_field returned it
BuildField ==
    /\ build.kind = "field" /\ build.stage = "start"
    /\ build' = [build EXCEPT !.stage = "done",
                              !.property = _resolve_field(build.task.type, <<>>, 1).r,
                              !.out = _resolve_dataclass_field(build.task, <<>>, 1).r]
    /\ UNCHANGED <<typeVars, callVars, threads, sys_stdout, run, stack>>

\* discriminator("kind") applied to the target
BuildDiscriminator ==
    /\ build.kind = "discriminator" /\ build.stage = "start"
    /\ build' = [build EXCEPT !.stage = "done", !.out = discriminator("kind", build.task)]
    /\ UNCHANGED <<typeVars, callVars, threads, sys_stdout, run, stack>>

\* build_object_schema(t)
BuildObjectSchema ==
    /\ build.kind = "object" /\ build.stage = "start"
    /\ build' = [build EXCEPT !.stage = "done", !.out = build_object_schema(build.task)]
    /\ UNCHANGED <<typeVars, callVars, threads, sys_stdout, run, stack>>

NextBuild ==
    \/ BuildSchema
    \/ BuildField
    \/ BuildDiscriminator
    \/ BuildObjectSchema

SpecBuild == InitBuild /\ [][NextBuild]_vars

-----------------------------------------------------------------------------
(* One operation, call by call *)

\* self._scope.objects[self.id] read as the reference itself
RefType_callee_Self(os, T) == T

\* the object a reference hands its data to: self._scope.objects[self.id]
RefType_callee(os, T) == os[T.id]

\* a call: the object table in force, the node called and its argument
Callee(os, T, data) == [os |-> os, T |-> T, data |-> data]

IsCalled(T, data, op, n) ==
    IF op = "unserialize"
    THEN DictHas(data, PyStr(T.properties[n].id))
         /\ ~IsNone(DictGet(data, PyStr(T.properties[n].id)))
    ELSE LET vp == ObjectType_validate_property(data, <<>>, FieldId(T.properties[n]),
                                                T.properties[n])
         IN  vp.ok /\ ~IsNone(vp.v)

\* the calls ObjectType.<op> makes from the n-th property on
RECURSIVE ObjectType_calls(_, _, _, _, _)
ObjectType_calls(os, T, data, op, n) ==
    IF n > Len(T.properties) THEN <<>>
    ELSE LET rest == ObjectType_calls(os, T, data, op, n + 1)
             p == T.properties[n]
         IN  IF ~IsCalled(T, data, op, n) THEN rest
             ELSE IF op = "unserialize"
             THEN <<Callee(os, p.type, DictGet(data, PyStr(p.id)))>> \o rest
             ELSE <<Callee(os, p.type, GetAttr(data, FieldId(p)))>> \o rest

\* the calls T.<op>(data) makes on other nodes, in the order it makes them
\* as long as none of them fails; op is "unserialize", "validate" or "serialize"
Calls(os, T, data, op) ==
    CASE T.t = "list" ->
           IF IsInstanceList(data) /\ (op = "unserialize" \/ ListType_validate_(T, data, <<>>).ok)
           THEN [i \in 1..Len(data.l) |-> Callee(os, T.items, data.l[i])]
           ELSE <<>>
      [] T.t = "map" ->
           IF MapType_validate_(T, data, <<>>).ok
           THEN [i \in 1..(2 * Len(data.d)) |->
                    IF i % 2 = 1 THEN Callee(os, T.keys, data.d[(i + 1) \div 2][1])
                    ELSE Callee(os, T.values, data.d[i \div 2][2])]
           ELSE <<>>
      [] T.t = "object" ->
           IF op = "unserialize"
           THEN IF IsInstanceDict(data)
                   /\ \A n \in 1..Len(data.d) :
                         IsInstanceStr(data.d[n][1]) /\ HasProperty(T, data.d[n][1].s)
                THEN ObjectType_calls(os, T, data, op, 1)
                ELSE <<>>
           ELSE IF IsInstance(data, T.cls) THEN ObjectType_calls(os, T, data, op, 1)
                ELSE <<>>
      [] T.t = "oneof" ->
           IF op = "unserialize"
           THEN LET field == PyStr(T.discriminator_field_name)
                IN  IF IsInstanceDict(data) /\ DictHas(data, field)
                       /\ IsInstanceStr(DictGet(data, field))
                       /\ HasType(T, DictGet(data, field).s)
                    THEN LET sub_type == GetType(T, DictGet(data, field).s)
                         IN  <<Callee(os, sub_type,
                                      IF ~HasProperty(sub_type, T.discriminator_field_name)
                                      THEN DictDel(data, field) ELSE data)>>
                    ELSE <<>>
           ELSE LET matching == {n \in 1..Len(T.types) : IsInstance(data, T.types[n][2].cls)}
                IN  IF matching = {} THEN <<>>
                    ELSE <<Callee(os, T.types[CHOOSE n \in matching :
                                                 \A k \in matching : n <= k][2], data)>>
      [] T.t = "ref" ->
           IF T.id \in DOMAIN os THEN <<Callee(os, RefType_callee(os, T), data)>> ELSE <<>>
      [] T.t = "scope" ->
           IF T.root \in DOMAIN T.objects /\ ObjectType_name(T.objects[T.root]).ok
           THEN <<Callee(T.objects, T.objects[T.root], data)>>
           ELSE <<>>
      [] OTHER -> <<>>

\* a frame: a call and the number of the next call it will make
Frame(c, op) == [os |-> c.os, T |-> c.T, data |-> c.data, op |-> op, next |-> 1]

\* the trees an operation is followed on: those whose objects refer to
\* themselves or to one another, and unions, lists and maps under a reference
DescendCases == NodeCases \cup LateRefCases \cup {NestedCase, DeepCase, OneOfCase}

InitDescend ==
    /\ \E c \in DescendCases :
          /\ objs = c.objs
          /\ node = c.node
          /\ \/ /\ form = "raw" /\ val \in c.raws
                /\ stack = <<Frame(Callee(objs, node, val), "unserialize")>>
             \/ /\ form = "typed" /\ val \in c.typeds
                /\ \E op \in {"validate", "serialize"} :
                      stack = <<Frame(Callee(objs, node, val), op)>>
    /\ last = NoOp
    /\ prev = NoOp
    /\ nops = 0
    /\ pc = "idle"
    /\ call = NoCall
    /\ input_param = None
    /\ result = None
    /\ outcome = None
    /\ events = <<>>
    /\ threads = <<>>
    /\ sys_stdout = 0
    /\ run = None
    /\ build = None

\* the innermost call makes its next call
CallDescend ==
    /\ stack # <<>>
    /\ LET f == stack[Len(stack)]
           calls == Calls(f.os, f.T, f.data, f.op)
       IN  /\ f.next <= Len(calls)
           /\ stack' = Append([stack EXCEPT ![Len(stack)].next = f.next + 1],
                              Frame(calls[f.next], f.op))
    /\ UNCHANGED <<typeVars, callVars, threads, sys_stdout, run, build>>

\* the innermost call has made its calls and returns. A call that raises
\* makes fewer calls than are followed here, and so does its caller.
CallReturn ==
    /\ stack # <<>>
    /\ LET f == stack[Len(stack)]
       IN  /\ f.next > Len(Calls(f.os, f.T, f.data, f.op))
           /\ stack' = SubSeq(stack, 1, Len(stack) - 1)
    /\ UNCHANGED <<typeVars, callVars, threads, sys_stdout, run, build>>

NextDescend == CallDescend \/ CallReturn

\* the interpreter runs the one thread of the call until it has returned
SpecDescend == InitDescend /\ [][NextDescend]_vars /\ WF_vars(NextDescend)

-----------------------------------------------------------------------------
(* Vocabulary of the properties below *)

\* the rules an object's properties carry, as <<property number, kind>>
RulesOf(T) ==
    {<<n, "required">> : n \in {m \in 1..Len(T.properties) : T.properties[m].required}}
    \cup {<<n, "required_if">> :
            n \in {m \in 1..Len(T.properties) : T.properties[m].required_if # <<>>}}
    \cup {<<n, "required_if_not">> :
            n \in {m \in 1..Len(T.properties) : T.properties[m].required_if_not # <<>>}}
    \cup {<<n, "conflicts">> :
            n \in {m \in 1..Len(T.properties) : T.properties[m].conflicts # <<>>}}

\* a typed instance of the object's class whose fields hold integers or nothing
WellTyped(T, v) ==
    /\ IsInstance(v, T.cls)
    /\ \A f \in DOMAIN v.f : v.f[f] = None \/ v.f[f].k = "int"
\* property n of T has a value in the typed instance v
IsSet(T, v, n) == v.f[FieldId(T.properties[n])] # None

\* a raw mapping of declared keys whose values are integers or null
WellFormed(T, raw) ==
    /\ IsInstanceDict(raw)
    /\ \A e \in 1..Len(raw.d) :
          /\ IsInstanceStr(raw.d[e][1]) /\ HasProperty(T, raw.d[e][1].s)
          /\ raw.d[e][2] = None \/ raw.d[e][2].k = "int"
\* the raw mapping has the key of property n
HasKey(T, raw, n) == DictHas(raw, PyStr(T.properties[n].id))
\* the raw mapping supplies a value for property n: the key is there and is not null
Supplies(T, raw, n) ==
    HasKey(T, raw, n) /\ DictGet(raw, PyStr(T.properties[n].id)) # None

-----------------------------------------------------------------------------
(* Step and schema invocation *)

\* the handler has been called
HandlerCalled == \E i \in DOMAIN events : events[i].name = "handler"
\* the handler's result is a pair whose first element is a declared output id
DeclaredPair ==
    /\ Len(result) = 2
    /\ IsInstanceStr(result[1])
    /\ result[1].s \in DOMAIN steps[call.step_id].outputs

\* C1: a finished schema invocation has classified its failure: an unknown
\* step id gives NoSuchStep, a ConstraintException from decoding the input
\* gives InvalidInput carrying that exception (path included), and a
\* ConstraintException from encoding the result gives InvalidOutput.
C1_FailuresClassified ==
    (call.entry = "schema" /\ pc = "done")
    => /\ call.step_id \notin DOMAIN steps => outcome = NoSuchStepException(call.step_id)
       /\ call.step_id \in DOMAIN steps =>
            LET step == steps[call.step_id]
                u == Unserialize(<<>>, step.input, call.data, <<>>).r
            IN  /\ IsConstraintException(u) => outcome = InvalidInputException(u)
                /\ (HandlerCalled /\ DeclaredPair /\ ~call.skip_serialization) =>
                      LET r == Serialize(<<>>, step.outputs[result[1].s], result[2], <<>>)
                      IN  IsConstraintException(r) => outcome = InvalidOutputException(r)

\* a schema invocation ended in InvalidOutput, the wrapped error carrying a path
C1_Witness ==
    /\ call.entry = "schema" /\ pc = "done" /\ outcome.kind = "raise"
    /\ outcome.exc = "InvalidOutputException"
    /\ outcome.constraint.path # <<>>

\* C2: no call of a schema or a step ends in a bare ConstraintException.
C2_NeverBareConstraintException ==
    pc = "done" => ~(outcome.kind = "raise" /\ outcome.exc = "ConstraintException")

\* C3: in a schema invocation the handler is called at most once, only after a
\* successful lookup followed by a successful decode, never when the call
\* ended in NoSuchStep or InvalidInput, and the output is encoded or validated
\* only after the handler returned.
C3_InvocationOrder ==
    call.entry = "schema" =>
       /\ Cardinality({i \in DOMAIN events : events[i].name = "handler"}) <= 1
       /\ \A i \in DOMAIN events :
             events[i].name = "handler" =>
                \E j, k \in 1..(i - 1) :
                    /\ j < k
                    /\ events[j].name = "lookup" /\ events[j].out.ok
                    /\ events[k].name = "unserialize" /\ events[k].out.ok
       /\ pc = "handler" =>
             /\ \E j \in DOMAIN events : events[j].name = "lookup" /\ events[j].out.ok
             /\ \E k \in DOMAIN events : events[k].name = "unserialize" /\ events[k].out.ok
       /\ (/\ pc = "done" /\ outcome.kind = "raise"
           /\ outcome.exc \in {"NoSuchStepException", "InvalidInputException"})
             => ~HandlerCalled
       /\ \A i \in DOMAIN events :
             events[i].name \in {"serialize", "validate_output"} =>
                \E j \in 1..(i - 1) : events[j].name = "handler"

\* a schema invocation went through all four stages and returned
C3_Witness ==
    /\ call.entry = "schema" /\ pc = "done" /\ outcome.kind = "return"
    /\ [i \in DOMAIN events |-> events[i].name]
          = <<"lookup", "unserialize", "handler", "serialize">>

\* C4: StepType.__call__ returns a pair only when the handler returned exactly
\* two elements the first of which is a declared output id; a result of another
\* length or with an undeclared id raises BadArgumentException; no call, of a
\* step or of the schema, returns an undeclared output id.
C4_OnlyDeclaredPairs ==
    pc = "done" =>
       /\ outcome.kind = "return" =>
             /\ DeclaredPair
             /\ outcome.v[1] = result[1]
             /\ call.entry = "step" => outcome.v = <<result[1], result[2]>>
       /\ (HandlerCalled /\ ~DeclaredPair) => outcome = BadArgumentException

\* a direct step call whose handler returned an undeclared id ended in
\* BadArgumentException
C4_Witness ==
    /\ call.entry = "step" /\ pc = "done"
    /\ Len(result) = 2 /\ result[1] = PyStr("undeclared")
    /\ outcome = BadArgumentException

-----------------------------------------------------------------------------
(* Requiredness and conflicts on objects *)

\* C5: for an object whose property A has required_if=[B] and no other rule,
\* validate accepts a value with A and B both unset, rejects one with B set
\* and A unset, and accepts one with both set.
C5_RequiredIfMatrix ==
    \A a \in {1, 2} :
        (/\ node.t = "object"
         /\ RulesOf(node) = {<<a, "required_if">>}
         /\ last.op = "validate"
         /\ WellTyped(node, last.in))
        => LET A == IsSet(node, last.in, a)
               B == IsSet(node, last.in, 3 - a)
           IN  /\ (~A /\ ~B) => last.out.ok
               /\ (~A /\ B) => ~last.out.ok
               /\ (A /\ B) => last.out.ok

\* C6: with X.conflicts=[Y] and no other rule, unserialize and validate accept
\* input supplying only X or only Y and reject input supplying both,
\* whichever of the two is declared first.
C6_ConflictsSymmetric ==
    \A x \in {1, 2} :
        (node.t = "object" /\ RulesOf(node) = {<<x, "conflicts">>})
        => /\ (last.op = "unserialize" /\ WellFormed(node, last.in))
               => LET X == Supplies(node, last.in, x)
                      Y == Supplies(node, last.in, 3 - x)
                  IN  /\ (X /\ Y) => ~last.out.ok
                      /\ (X /\ ~Y) \/ (~X /\ Y) => last.out.ok
           /\ (last.op = "validate" /\ WellTyped(node, last.in))
               => LET X == IsSet(node, last.in, x)
                      Y == IsSet(node, last.in, 3 - x)
                  IN  /\ (X /\ Y) => ~last.out.ok
                      /\ (X /\ ~Y) \/ (~X /\ Y) => last.out.ok

\* the requiredness rule of the specification for an absent property p,
\* given the set of names that are present
MustBePresent(p, present) ==
    \/ p.required
    \/ \E r \in Names(p.required_if) : r \in present
    \/ p.required_if_not # <<>> /\ ~\E r \in Names(p.required_if_not) : r \in present

\* C7: in unserialize a declared property absent from the raw mapping makes
\* decode fail if and only if required is set, or a name in required_if is
\* present, or required_if_not is non-empty and none of its names is present.
\* Stated on mappings without null values and objects without conflicts, where
\* an absent property is the only reason decode can fail.
C7_AbsentProperty ==
    (/\ node.t = "object"
     /\ \A n \in 1..Len(node.properties) : node.properties[n].conflicts = <<>>
     /\ last.op = "unserialize"
     /\ WellFormed(node, last.in)
     /\ \A e \in 1..Len(last.in.d) : last.in.d[e][2] # None)
    => LET present == {last.in.d[e][1].s : e \in 1..Len(last.in.d)}
       IN  ~last.out.ok <=>
              \E n \in 1..Len(node.properties) :
                  /\ node.properties[n].id \notin present
                  /\ MustBePresent(node.properties[n], present)

\* C8: validate accepts every typed value that unserialize produced.  Stated
\* on the drawn two-property objects and on raw mappings without null values.
C8_ValidateAcceptsDecoded ==
    (/\ node.t = "object"
     /\ prev.op = "unserialize" /\ prev.out.ok
     /\ WellFormed(node, prev.in)
     /\ \A e \in 1..Len(prev.in.d) : prev.in.d[e][2] # None
     /\ last.op = "validate" /\ last.in = prev.out.v)
    => last.out.ok

\* C9: serialize returns wire data only for values that validate accepts.
C9_SerializeValidates ==
    (last.op = "serialize" /\ last.out.ok)
    => Validate(objs, node, last.in, <<>>).ok

-----------------------------------------------------------------------------
(* Round trip *)

\* C10: for every typed value v that validate accepts, serialize succeeds and
\* unserialize(serialize(v)) equals v.
C10_RoundTrip ==
    /\ (last.op = "serialize" /\ Validate(objs, node, last.in, <<>>).ok) => last.out.ok
    /\ (/\ prev.op = "serialize" /\ prev.out.ok
        /\ Validate(objs, node, prev.in, <<>>).ok
        /\ last.op = "unserialize" /\ last.in = prev.out.v)
       => last.out.ok /\ PyEq(last.out.v, prev.in)

-----------------------------------------------------------------------------
(* One-of *)

\* the node is a one-of none of whose members declares the discriminator field
UntaggedOneOf ==
    /\ node.t = "oneof"
    /\ \A n \in 1..Len(node.types) :
          ~HasProperty(node.types[n][2], node.discriminator_field_name)
\* the raw mapping carries a discriminator that is a registered key
SelectsMember(raw) ==
    /\ IsInstanceDict(raw)
    /\ DictHas(raw, PyStr(node.discriminator_field_name))
    /\ IsInstanceStr(DictGet(raw, PyStr(node.discriminator_field_name)))
    /\ HasType(node, DictGet(raw, PyStr(node.discriminator_field_name)).s)

\* C11: on a one-of whose members do not declare the discriminator field,
\* decoding a mapping that carries the discriminator is decoding the mapping
\* without the discriminator key by the selected member, and encoding the
\* decoded value gives the member's encoding plus the discriminator key
\* bound to the member's registered key, which is the original mapping.
C11_UntaggedOneOf ==
    UntaggedOneOf =>
       /\ (last.op = "unserialize" /\ SelectsMember(last.in)) =>
             LET field == PyStr(node.discriminator_field_name)
                 member == GetType(node, DictGet(last.in, field).s)
                 stripped == DictDel(last.in, field)
             IN  /\ ~DictHas(stripped, field)
                 /\ last.out = ObjectType_unserialize(objs, member, stripped, <<>>).r
       /\ (/\ prev.op = "unserialize" /\ SelectsMember(prev.in) /\ prev.out.ok
           /\ last.op = "serialize" /\ last.in = prev.out.v) =>
             LET field == PyStr(node.discriminator_field_name)
                 key == DictGet(prev.in, field)
                 member == GetType(node, key.s)
                 encoded == ObjectType_serialize(objs, member, last.in, <<>>)
             IN  /\ last.out.ok
                 /\ encoded.ok
                 /\ last.out.v = DictSet(encoded.v, field, key)
                 /\ PyEq(last.out.v, prev.in)

\* a mapping with the discriminator and a member field was decoded and the
\* decoded value encoded again
C11_Witness ==
    /\ node = OneOfXY
    /\ prev.op = "unserialize" /\ prev.out.ok
    /\ prev.in = PyDict(<< <<PyStr("_type"), PyStr("x")>>, <<PyStr("a"), PyInt(1)>> >>)
    /\ last.op = "serialize" /\ last.out.ok

\* what the selected member makes of the mapping: the discriminator key is
\* removed first when the member does not declare it
MemberDecode(raw, key) ==
    LET field == PyStr(node.discriminator_field_name)
        member == GetType(node, key)
    IN  ObjectType_unserialize(objs, member,
            IF HasProperty(member, node.discriminator_field_name) THEN raw
            ELSE DictDel(raw, field), <<>>).r

\* the discriminator as the union's discriminator type, a string: an integer
\* or a boolean becomes its string form, as StringType.unserialize does
Coerced(v) == IF IsInstanceInt(v) THEN PyStr(PyStrOf(v)) ELSE v

\* C12 (as stated): one-of decode fails with a ConstraintException when the
\* data is not a mapping, when the discriminator field is missing, or when the
\* discriminator, coerced to a string, matches no registered key; a
\* discriminator that coerces to a registered key selects that member.
C12_CoercedDiscriminator ==
    (node.t = "oneof" /\ last.op = "unserialize") =>
       LET field == PyStr(node.discriminator_field_name)
       IN  /\ ~IsInstanceDict(last.in) => IsConstraintException(last.out)
           /\ (IsInstanceDict(last.in) /\ ~DictHas(last.in, field))
                 => IsConstraintException(last.out)
           /\ (IsInstanceDict(last.in) /\ DictHas(last.in, field)) =>
                 LET d == Coerced(DictGet(last.in, field))
                 IN  IF IsInstanceStr(d) /\ HasType(node, d.s)
                     THEN last.out = MemberDecode(last.in, d.s)
                     ELSE IsConstraintException(last.out)

\* C12 (amended): one-of decode fails with a ConstraintException when the
\* data is not a mapping, when the discriminator field is missing, when the
\* discriminator is not a string (no coercion is applied: an integer is
\* rejected even if its string form is a registered key), or when it is a
\* string that matches no registered key; a string equal to a registered key
\* selects that member.
C12_StringDiscriminator ==
    (node.t = "oneof" /\ last.op = "unserialize") =>
       LET field == PyStr(node.discriminator_field_name)
       IN  /\ ~IsInstanceDict(last.in) =>
                 IsConstraintException(last.out) /\ last.out.path = <<>>
           /\ (IsInstanceDict(last.in) /\ ~DictHas(last.in, field)) =>
                 IsConstraintException(last.out) /\ last.out.path = <<field>>
           /\ (IsInstanceDict(last.in) /\ DictHas(last.in, field)) =>
                 LET d == DictGet(last.in, field)
                 IN  IF IsInstanceStr(d) /\ HasType(node, d.s)
                     THEN last.out = MemberDecode(last.in, d.s)
                     ELSE IsConstraintException(last.out) /\ last.out.path = <<field>>

\* an integer discriminator whose string form is a registered key was rejected
C12_Witness ==
    /\ node = OneOfNum
    /\ last.op = "unserialize"
    /\ last.in = PyDict(<< <<PyStr("_type"), PyInt(1)>>, <<PyStr("a"), PyInt(1)>> >>)
    /\ IsConstraintException(last.out)

\* the node is a one-of all of whose members declare the discriminator field
TaggedOneOf ==
    /\ node.t = "oneof"
    /\ \A n \in 1..Len(node.types) :
          HasProperty(node.types[n][2], node.discriminator_field_name)
\* the members whose class the value is an instance of
MembersOf(v) == {n \in 1..Len(node.types) : IsInstance(v, node.types[n][2].cls)}

\* C13: on a one-of whose members declare the discriminator field, validate
\* and serialize fail with a ConstraintException when the value's discriminator
\* field differs from the key its member is registered under, succeed when it
\* equals the key (and the member accepts the value), and reject a value that
\* is an instance of no member.
C13_TaggedOneOf ==
    (TaggedOneOf /\ last.op \in {"validate", "serialize"}) =>
       IF MembersOf(last.in) = {}
       THEN IsConstraintException(last.out)
       ELSE LET n == CHOOSE n \in MembersOf(last.in) : TRUE
                key == PyStr(node.types[n][1])
                member == node.types[n][2]
                tag == last.in.f[node.discriminator_field_name]
                accepted == IF last.op = "validate"
                            THEN ObjectType_validate(objs, member, last.in, <<>>).ok
                            ELSE ObjectType_serialize(objs, member, last.in, <<>>).ok
            IN  /\ tag # key => IsConstraintException(last.out)
                /\ (tag = key /\ accepted) => last.out.ok
                /\ ~accepted => IsConstraintException(last.out)

\* a value of a member's class that carries the key of the other member was
\* rejected by serialize, for the discriminator field
C13_Witness ==
    /\ node = OneOfTU
    /\ last.op = "serialize"
    /\ last.in = PyObj("T", ("_type" :> PyStr("u")) @@ ("a" :> PyInt(1)))
    /\ IsConstraintException(last.out)
    /\ last.out.path = <<PyStr("_type")>>

-----------------------------------------------------------------------------
(* References and scopes *)

\* C14: an operation on a reference resolves the identifier in the object
\* table as it is when the operation is called: it gives what the object
\* registered under the identifier gives, also when the object was added
\* after the reference was created, and it fails when the identifier is not
\* in the table.
C14_RefResolvedAtCall ==
    (node.t = "ref" /\ last.op # "none") =>
       IF node.id \in DOMAIN last.os
       THEN LET target == last.os[node.id]
            IN  CASE last.op = "unserialize" ->
                       last.out = ObjectType_unserialize(last.os, target, last.in, <<>>).r
                  [] last.op = "validate" ->
                       last.out = ObjectType_validate(last.os, target, last.in, <<>>)
                  [] last.op = "serialize" ->
                       last.out = ObjectType_serialize(last.os, target, last.in, <<>>)
       ELSE ~last.out.ok

\* a reference failed while its target was not in the table and validated the
\* same value once the target was added
C14_Witness ==
    /\ node.t = "ref"
    /\ prev.op = "validate" /\ ~prev.out.ok /\ node.id \notin DOMAIN prev.os
    /\ last.op = "validate" /\ last.out.ok /\ node.id \in DOMAIN last.os
    /\ last.in = prev.in

\* the node is the scope of the self-referential object, or a reference to
\* that object in a table that holds it
NodeSchema(os) ==
    \/ node = NodeScope
    \/ node = RefType("Node") /\ "Node" \in DOMAIN os

\* C15: for the self-referential object Node, a raw chain nested up to
\* MaxDepth deep decodes to the typed chain, the typed chain validates, and
\* encoding it gives the raw chain again.
C15_RecursiveChain ==
    \A n \in 1..MaxDepth :
       /\ (last.op = "unserialize" /\ NodeSchema(last.os) /\ last.in = RawChain(n))
             => last.out.ok /\ last.out.v = TypedChain(n)
       /\ (last.op = "validate" /\ NodeSchema(last.os) /\ last.in = TypedChain(n))
             => last.out.ok
       /\ (last.op = "serialize" /\ NodeSchema(last.os) /\ last.in = TypedChain(n))
             => last.out.ok /\ PyEq(last.out.v, RawChain(n))

-----------------------------------------------------------------------------
(* Paths *)

\* the index of the first element of a raw list that is not an integer
\* between 0 and 2 nor a string that parses as one, 0 when there is none
FirstBadElement(l) ==
    LET bad == {i \in 1..Len(l) :
                   ~(/\ IsInstanceInt(l[i]) \/ (IsInstanceStr(l[i]) /\ l[i].s \in DOMAIN IntParse)
                     /\ LET v == IF IsInstanceStr(l[i]) THEN IntParse[l[i].s] ELSE IntOf(l[i])
                        IN  0 <= v /\ v <= 2)}
    IN  IF bad = {} THEN 0 ELSE CHOOSE i \in bad : \A j \in bad : i <= j

\* the path the claim gives to the failure inside the entry <<k, v>> of the
\* map under property m: <<>> when the entry decodes
EntryFailurePath(k, v) ==
    LET key == PyStr(PyStrOf(k))
    IN  IF StrLen(key.s) > 1 THEN <<PyStr("m"), key, PyStr("key")>>
        ELSE IF ~IsInstanceList(v) THEN <<PyStr("m"), key, PyStr("value")>>
        ELSE IF FirstBadElement(v.l) # 0
        THEN <<PyStr("m"), key, PyStr("value"), PyStr(ToString(FirstBadElement(v.l) - 1))>>
        ELSE <<>>

\* the path of the first entry of the raw map that fails, <<>> when none does
RECURSIVE MapFailurePath(_, _)
MapFailurePath(d, n) ==
    IF n > Len(d) THEN <<>>
    ELSE IF EntryFailurePath(d[n][1], d[n][2]) # <<>>
    THEN EntryFailurePath(d[n][1], d[n][2])
    ELSE MapFailurePath(d, n + 1)

\* C16: when decode fails inside the list inside the map inside the object
\* property, the path of the ConstraintException is the property name, the
\* stringified map key, the marker "key" or "value", and for a list element
\* its index, in this order.
C16_NestedPath ==
    (node = DeepObject /\ last.op = "unserialize" /\ last.in \in DeepRaws) =>
       LET expected == MapFailurePath(DictGet(last.in, PyStr("m")).d, 1)
       IN  IF expected = <<>> THEN last.out.ok
           ELSE IsConstraintException(last.out) /\ last.out.path = expected

\* the outcome of the last operation had the caller passed the path prefix,
\* as test_object_serialization passes the class name
UnderPath(prefix) ==
    CASE last.op = "unserialize" -> Unserialize(last.os, node, last.in, prefix).r
      [] last.op = "validate" -> Validate(last.os, node, last.in, prefix)
      [] last.op = "serialize" -> Serialize(last.os, node, last.in, prefix)

\* C17: every ConstraintException of unserialize, validate and serialize
\* carries a non-empty reason and a path that begins with the path the caller
\* passed in.
C17_PathAndReason ==
    last.op # "none" =>
       /\ IsConstraintException(last.out) => last.out.msg # ""
       /\ LET prefix == <<PyStr("root")>>
              r == UnderPath(prefix)
          IN  IsConstraintException(r) =>
                 /\ r.msg # ""
                 /\ Len(r.path) >= Len(prefix)
                 /\ SubSeq(r.path, 1, Len(prefix)) = prefix

\* C18: BoolType.unserialize gives true for native true, the integer 1 and
\* every spelling of yes/on/true/enable/enabled/1, false for native false, the
\* integer 0 and every spelling of no/off/false/disable/disabled/0, and a
\* ConstraintException for everything else; BoolType.validate accepts native
\* booleans only.
C18_BoolTruthTable ==
    (node = BoolType /\ last.op \in {"unserialize", "validate"}) =>
       LET d == last.in
           truthy == \/ d = PyBool(TRUE)
                     \/ d = PyInt(1)
                     \/ d.k = "str" /\ d.s \in {"yes", "YES", "yEs", "on", "On", "true", "TRUE",
                                                "enable", "Enable", "enabled", "ENABLED", "1"}
           falsy == \/ d = PyBool(FALSE)
                    \/ d = PyInt(0)
                    \/ d.k = "str" /\ d.s \in {"no", "No", "off", "OFF", "false", "False",
                                               "disable", "DISABLE", "disabled", "Disabled", "0"}
       IN  IF last.op = "unserialize"
           THEN /\ truthy => last.out = Ok(PyBool(TRUE))
                /\ falsy => last.out = Ok(PyBool(FALSE))
                /\ (~truthy /\ ~falsy) => IsConstraintException(last.out)
           ELSE last.out.ok <=> d.k = "bool"

C18_Witness ==
    /\ node = BoolType
    /\ last.op = "validate"
    /\ last.out.ok
    /\ prev.op = "unserialize"
    /\ prev.in = PyStr("YES")
    /\ prev.out = Ok(PyBool(TRUE))

\* n lies within the bounds of the integer type T, the bounds included
WithinBounds(T, n) == (\A m \in T.min : n >= m) /\ (\A m \in T.max : n <= m)

\* C19: IntType.unserialize accepts a native integer and a string that int()
\* parses, and raises ConstraintException on any other string; unserialize,
\* validate and serialize accept an integer n exactly when it is not below a
\* set min and not above a set max.
C19_IntBounds ==
    (node.t = "int" /\ last.op # "none") =>
       LET d == last.in
       IN  /\ d.k = "int" =>
                (last.out.ok <=> WithinBounds(node, d.i))
           /\ (d.k = "int" /\ last.out.ok /\ last.op # "validate") => last.out.v = d
           /\ (last.op = "unserialize" /\ d.k = "str") =>
                IF d.s \in DOMAIN IntParse
                THEN IF WithinBounds(node, IntParse[d.s])
                     THEN last.out = Ok(PyInt(IntParse[d.s]))
                     ELSE IsConstraintException(last.out)
                ELSE IsConstraintException(last.out)
           /\ ~last.out.ok => IsConstraintException(last.out)

C19_Witness ==
    /\ node = IntType({0}, {2})
    /\ last.op = "serialize"
    /\ last.out = Ok(PyInt(2))
    /\ prev.op = "unserialize"
    /\ prev.in = PyStr("2")

\* the raw mapping d holds a key that is not the id of a property of T
HasUndeclaredKey(T, d) ==
    \E n \in 1..Len(d.d) : ~(d.d[n][1].k = "str" /\ HasProperty(T, d.d[n][1].s))

\* C20: ObjectType.unserialize raises ConstraintException at the object's own
\* path when the raw mapping holds an undeclared key, whatever the declared
\* keys hold, and when the input is not a mapping; no property was decoded
\* and no instance made.
C20_UndeclaredKey ==
    (node.t = "object" /\ last.op = "unserialize"
        /\ (last.in.k # "dict" \/ HasUndeclaredKey(node, last.in))) =>
       /\ IsConstraintException(last.out)
       /\ last.out.path = <<>>
       /\ last.out.msg \in {"Must be a dict, got {}",
                             "Invalid parameter '{}', expected one of: {}"}
       /\ last.after = last.in
       /\ form = "raw"

C20_Witness ==
    /\ node.t = "object"
    /\ last.op = "unserialize"
    /\ last.in.k = "dict"
    /\ Len(last.in.d) = 3
    /\ HasUndeclaredKey(node, last.in)
    /\ IsConstraintException(last.out)

\* entries i and j of the raw mapping d decode to the same key under T
SameDecodedKey(os, T, d, i, j) ==
    LET ki == Unserialize(os, T.keys, d.d[i][1], <<>>).r
        kj == Unserialize(os, T.keys, d.d[j][1], <<>>).r
    IN  ki.ok /\ kj.ok /\ KeyEq(ki.v, kj.v)

\* C21: MapType.unserialize raises ConstraintException when two raw keys
\* decode to the same key; a decoded map has as many entries as the raw
\* mapping, and that number is within min and max.
C21_NoOverwrite ==
    (node.t = "map" /\ last.op = "unserialize" /\ last.in.k = "dict") =>
       /\ (\E i, j \in 1..Len(last.in.d) :
               i < j /\ SameDecodedKey(last.os, node, last.in, i, j))
            => IsConstraintException(last.out)
       /\ last.out.ok =>
            /\ Len(last.out.v.d) = Len(last.in.d)
            /\ \A m \in node.min : Len(last.out.v.d) >= m
            /\ \A m \in node.max : Len(last.out.v.d) <= m

C21_Witness ==
    /\ node.t = "map"
    /\ last.op = "unserialize"
    /\ last.in = PyDict(<< <<PyInt(1), PyInt(1)>>, <<PyStr("1"), PyInt(1)>> >>)
    /\ last.out = ConstraintException(<<PyStr("1"), PyStr("key")>>,
                                      "Key already exists in result dict")

\* what the call of thread record th returns on the tree it was started on
\* when no other caller runs
WhenAlone(th) ==
    LET os == th.tree.objs
        T == th.tree.node
    IN  CASE th.op = "unserialize" -> Unserialize(os, T, th.data, <<>>).r
          [] th.op = "validate" -> Validate(os, T, th.data, <<>>)
          [] th.op = "serialize" -> Serialize(os, T, th.data, <<>>)
          [] th.op = "execute" ->
               LET u == Unserialize(os, T, th.data, <<>>).r
                   r == Serialize(os, T, u.v, <<>>)
               IN  IF ~u.ok THEN ExitOrRaise(u, "InvalidInputException", 65)
                   ELSE IF ~r.ok THEN ExitOrRaise(r, "InvalidOutputException", 70)
                   ELSE [exit |-> 0, written |-> r.v, exc |-> "none"]

UsageError(a) ==
    \/ a.remaining
    \/ a.step = "none" /\ Cardinality(RunSteps(a)) > 1
    \/ a.filename = "none" /\ a.json_schema = "none"
    \/ a.step # "none" /\ a.step \notin RunSteps(a)

DuplicateStepId(args) ==
    \E i \in 1..Len(args), j \in 1..Len(args) : i < j /\ args[i].id = args[j].id

RequiredBothWays(p) ==
    p.required /\ (p.required_if # <<>> \/ p.required_if_not # <<>>)

DeclaresKind(oneof, n) == HasProperty(oneof.types[n][2], "kind")
\* ... and with the type of the union's discriminator
DeclaresKindAs(oneof, n) ==
    PropertyOf(oneof.types[n][2], "kind").type.t = (IF oneof.t = "oneof" THEN "string" ELSE "int")

\* C26: discriminator("kind") on a union fails with a build-time error when a
\* member declares "kind" with another type than the union's discriminator,
\* and succeeds when every member that declares it does so with that type,
\* whether or not some member leaves it out.
C26_DiscriminatorTypes ==
    (build # None /\ build.kind = "discriminator" /\ build.stage = "done"
       /\ build.task.t \in {"oneof", "oneof_int"}) =>
       LET oneof == build.task
           mismatch == \E n \in 1..Len(oneof.types) :
                          DeclaresKind(oneof, n) /\ ~DeclaresKindAs(oneof, n)
       IN  IF mismatch
           THEN ~build.out.ok
                /\ build.out.exc \in {"InvalidAnnotationException", "BadArgumentException"}
           ELSE build.out.ok /\ build.out.v.discriminator_field_name = "kind"

\* the names of classes a field type mentions
RECURSIVE AnnNames(_)
AnnNames(t) ==
    CASE t.a \in {"class", "forward", "str"} -> {t.name}
      [] t.a \in {"optional", "annotated"} -> AnnNames(t.of)
      [] OTHER -> {}
ClassNames(name) ==
    UNION {AnnNames(BuildClasses[name][n].type) : n \in 1..Len(BuildClasses[name])}
\* the dataclass refers to itself, directly or through another dataclass
RefersToItself(name) ==
    \/ name \in ClassNames(name)
    \/ \E other \in ClassNames(name) : name \in ClassNames(other)

\* C27: build_object_schema on a dataclass that refers to itself returns a
\* scope that holds the dataclass under its name.
C27_RecursiveBuild ==
    (build # None /\ build.kind = "object" /\ build.stage = "done"
       /\ RefersToItself(build.task)) =>
       /\ build.out.ok
       /\ build.out.v.t = "scope"
       /\ build.task \in DOMAIN build.out.v.objects

\* C28: unserialize leaves the caller's raw object as it was, and decoding
\* that object once more gives the outcome of the first decoding.
C28_RawUntouched ==
    last.op = "unserialize" =>
       /\ last.after = last.in
       /\ Unserialize(last.os, node, last.after, <<>>).r = last.out

\* the raw mapping without the entries whose value is null
NotNullEntry(e) == e[2] # None
WithoutNulls(raw) == PyDict(SelectSeq(raw.d, NotNullEntry))

\* C29: ObjectType.unserialize treats a raw key whose value is null as an
\* absent key throughout: the outcome on a raw mapping is the outcome on the
\* mapping without its null entries.
C29_NullIsAbsent ==
    (last.op = "unserialize" /\ node.t = "object" /\ last.in.k = "dict") =>
       last.out = Unserialize(last.os, node, WithoutNulls(last.in), <<>>).r

\* how deep the data is nested: 1 for a scalar, one more than its deepest
\* element, key, value or field for a list, a mapping or an object
RECURSIVE DataDepth(_)
DataDepth(data) ==
    LET Deepest(S) == IF S = {} THEN 0 ELSE CHOOSE d \in S : \A e \in S : e <= d
    IN  CASE data.k = "list" -> 1 + Deepest({DataDepth(data.l[i]) : i \in 1..Len(data.l)})
          [] data.k = "dict" ->
               1 + Deepest({DataDepth(data.d[i][1]) : i \in 1..Len(data.d)}
                           \cup {DataDepth(data.d[i][2]) : i \in 1..Len(data.d)})
          [] data.k = "obj" -> 1 + Deepest({DataDepth(data.f[n]) : n \in DOMAIN data.f})
          [] OTHER -> 1

\* C30 as stated: every call made inside an operation gets data nested one
\* level deeper than its caller's, so there are at most as many calls under
\* way as the data has levels.
C30_StepDescends ==
    /\ \A i \in 1..(Len(stack) - 1) : DataDepth(stack[i + 1].data) < DataDepth(stack[i].data)
    /\ stack # <<>> => Len(stack) <= DataDepth(stack[1].data)

\* the calls under way respect the nesting of the data: a list, a map and an
\* object call on data nested deeper than their own; a reference, a one-of and
\* a scope hand their own data on, a reference to an object and a one-of to an
\* object or a reference; so at most three calls work on one level
DescendsByLevel ==
    /\ \A i \in 1..(Len(stack) - 1) :
          LET caller == stack[i]
              callee == stack[i + 1]
          IN  /\ caller.T.t \in {"list", "map", "object"}
                    => DataDepth(callee.data) < DataDepth(caller.data)
              /\ caller.T.t \in {"ref", "oneof", "scope"}
                    => /\ DataDepth(callee.data) <= DataDepth(caller.data)
                       /\ callee.T.t \in {"object", "ref"}
              /\ caller.T.t = "ref" => callee.T.t = "object"
    /\ stack # <<>> => Len(stack) <= 3 * DataDepth(stack[1].data)

\* C30, amended: unserialize, validate and serialize return or raise on every
\* input, and while they run the calls under way respect the nesting of the
\* data, a reference or one-of handing its data on unchanged to an object.
C30_Terminates == []DescendsByLevel /\ <>(stack = <<>>)

C30_Witness ==
    /\ Len(stack) >= 4
    /\ stack[1].T.t = "ref" /\ stack[2].T.t = "object"
    /\ stack[3].T.t = "ref" /\ stack[3].T.id = stack[1].T.id
    /\ stack[4].T.t = "object"

====
